---- MODULE Spec2Model ----
(***************************************************************************)
(* CodeGit back end (src-tauri/src/main.rs): the repository commands that  *)
(* move references and create commits, as a state machine over one git     *)
(* repository.  Every command opens the repository, does its work through  *)
(* git2 and returns; a command is one atomic action.                       *)
(*                                                                         *)
(* Objects: a commit is [tree, parents]; its id is its position in the     *)
(* object store `commits` (a commit made later has a larger id: every      *)
(* command signs with Signature::now, so no two commits are equal).  A     *)
(* tree maps each path to a blob (1..MaxContent) or to Absent.             *)
(***************************************************************************)
EXTENDS Integers, Sequences, FiniteSets, TLC

\* Bounds: commits in the object store; commits in the store while the user
\* still edits, commits and plans; entries of a rebase plan; distinct file
\* contents.
MaxCommits == 5
MaxUserCommits == 3
MaxPlan == 2
MaxContent == 2
MaxStashes == 3
MaxStashHistory == 2
MaxResolveStashes == 1
MaxWalk == 4
MaxTime == 2
MaxObjects == 3
MaxUserId == 3
MaxTasks == 2

Paths == {"f", "g"}
Absent == 0
Blobs == 1..MaxContent
Trees == [Paths -> {Absent} \cup Blobs]
EmptyTree == [p \in Paths |-> Absent]

BranchNames == {"main", "feature"}
NoCommit == 0

\* enum RebaseAction
RebaseAction == {"Pick", "Squash", "Edit", "Reword", "Drop"}

VARIABLES
  commits,   \* object store: sequence of [tree, parents]
  branches,  \* refs/heads/*: branch name -> commit id, NoCommit when the ref does not exist
  HEAD,      \* the branch HEAD is attached to (symbolic reference)
  workdir,   \* working tree: path -> blob or Absent
  index,     \* staging area: set of entries [path, stage, blob]
  plan,      \* the RebasePlan the caller holds: [commits: Seq(id), onto: branch], or NoPlan
  last,      \* the last command and what it returned
  stashes,   \* refs/stash and its reflog: the stash commits, most recent first
  remote,    \* the remote repository's branches: branch name -> commit id
  tracking,  \* refs/remotes/origin/*: branch name -> commit id
  pending,   \* a command of a second process between its read of HEAD and its write
  odb,       \* object store: the stash commits stash_save has written
  users,          \* table users: rows [id, name, email, workspace_name, created_at, updated_at]
  user_seq,       \* sqlite_sequence of users: the largest rowid AUTOINCREMENT has given out
  organizations,  \* table organizations: rows [id, name, created_at, updated_at]
  repositories,   \* table repositories: rows [id, path, organization_id, created_at, updated_at]
  app_settings,   \* table app_settings: rows [id, is_first_time, theme_mode, updated_at]
  managed,        \* the DatabaseState the application manages: TRUE once init_database has returned
  mutex,          \* the tokio Mutex around the Database: [holder, waiters]
  tasks           \* the database commands in flight: task -> [cmd, pc, arg, seen]

dbvars == <<users, user_seq, organizations, repositories, app_settings, managed, mutex, tasks>>

vars == <<commits, branches, HEAD, workdir, index, plan, last, stashes, remote, tracking, pending, odb,
          dbvars>>

NoPlan == [commits |-> <<>>, onto |-> ""]

\* no command is in flight in a second process
NoCall == [op |-> "", kind |-> "", arg |-> "", ref |-> "", head |-> NoCommit,
           target |-> NoCommit, tree |-> <<>>]

\* What a command reports: its name, Ok/Err, the branch argument, the path it
\* took, HEAD's commit before it ran, the merge base it computed, the target
\* commit, the commits and actions of the plan it executed and the commits it
\* created.
Result(op, ok, kind, arg, old, mb, target, ids, acts, made) ==
  [op |-> op, ok |-> ok, kind |-> kind, arg |-> arg, old |-> old, mb |-> mb,
   target |-> target, ids |-> ids, acts |-> acts, made |-> made]

Idle == Result("", TRUE, "", "", 0, 0, 0, <<>>, <<>>, <<>>)

----------------------------------------------------------------------------
\* The SQLite store behind struct Database

Emails == {"a@x", "b@x"}
Names == {"ann", "bob"}
Workspaces == {{}, {"ws"}}          \* Option<String>: None or Some
Times == 1..MaxTime                 \* what Utc::now() and CURRENT_TIMESTAMP give
OrgIds == {"o1", "o2"}
RepoIds == {"r1", "r2"}
RepoPaths == {"/p", "/q"}
Themes == {"dark", "light"}
TaskIds == 1..MaxTasks
NoTask == 0

\* struct UserInfo as a caller fills it: id and updated_at are not read
UserInfos == [name : Names, email : Emails, workspace_name : Workspaces, created_at : Times]

\* struct Organization as a caller fills it (name stands for the text columns)
Organizations == [id : OrgIds, name : Names, created_at : Times, updated_at : Times]

\* struct Repository as a caller fills it (path stands for the other columns)
Repositories == [id : RepoIds, path : RepoPaths, organization_id : {{}} \cup {{o} : o \in OrgIds},
                 updated_at : Times]

\* struct AppSettings as a caller fills it
AppSettingss == [is_first_time : BOOLEAN, theme_mode : Themes]

\* the one element of a set that has one
The(S) == CHOOSE x \in S : TRUE

\* the store before Database::new has ever run, no state managed, no command in flight
InitDatabase ==
  /\ users = {}
  /\ user_seq = 0
  /\ organizations = {}
  /\ repositories = {}
  /\ app_settings = {}
  /\ managed = FALSE
  /\ mutex = [holder |-> NoTask, waiters |-> <<>>]
  /\ tasks = [t \in TaskIds |-> [cmd |-> "", pc |-> "idle", step |-> 0, arg |-> <<>>, seen |-> <<>>]]

\* the row initialize asks for; theme_mode takes the column's DEFAULT
DefaultSettings(now) == [id |-> 1, is_first_time |-> TRUE, theme_mode |-> "dark", updated_at |-> now]

\* INSERT OR REPLACE in place of INSERT OR IGNORE
Database_initialize_replace(st, now) == {r \in st : r.id # 1} \cup {DefaultSettings(now)}

\* Database::initialize: CREATE TABLE IF NOT EXISTS keeps the tables, and
\* INSERT OR IGNORE adds the row with id 1 unless there is one
Database_initialize(st, now) ==
  IF \E r \in st : r.id = 1 THEN st ELSE st \cup {DefaultSettings(now)}

\* Database::save_user: INSERT OR REPLACE deletes the row that holds the email
\* (UNIQUE) and inserts a row with the next AUTOINCREMENT rowid; created_at is
\* the deleted row's when there was one (the subquery runs first), else now
Database_save_user(us, seq, user, now) ==
  LET old == {r \in us : r.email = user.email}
      row == [id |-> seq + 1, name |-> user.name, email |-> user.email,
              workspace_name |-> user.workspace_name,
              created_at |-> IF old = {} THEN now ELSE The(old).created_at,
              updated_at |-> now]
  IN [users |-> (us \ old) \cup {row}, seq |-> seq + 1, id |-> seq + 1]

\* ORDER BY id ASC in place of DESC
Database_get_user_oldest(us) == {r \in us : \A q \in us : q.id >= r.id}

\* Database::get_user: ORDER BY id DESC LIMIT 1, None when the table is empty
Database_get_user(us) == {r \in us : \A q \in us : q.id <= r.id}

\* ON DELETE SET NULL of repositories.organization_id (sqlx opens SQLite with
\* foreign keys enforced)
SetNull(repos, id) ==
  {IF r.organization_id = {id} THEN [r EXCEPT !.organization_id = {}] ELSE r : r \in repos}

\* the REPLACE conflict resolution deletes the row that holds the id, and the
\* foreign key action runs for the deleted row
ReplaceReferences(repos, id) == SetNull(repos, id)

\* Database::save_organization: INSERT OR REPLACE on the primary key id;
\* created_at is the old row's when there was one, else org.updated_at
Database_save_organization(orgs, repos, org) ==
  LET old == {r \in orgs : r.id = org.id}
      row == [id |-> org.id, name |-> org.name,
              created_at |-> IF old = {} THEN org.updated_at ELSE The(old).created_at,
              updated_at |-> org.updated_at]
  IN [organizations |-> (orgs \ old) \cup {row},
      repositories |-> IF old = {} THEN repos ELSE ReplaceReferences(repos, org.id)]

\* Database::get_organizations: ORDER BY created_at ASC; rows of one created_at
\* come in any order, so the reply is the set of rows
Database_get_organizations(orgs) == orgs

\* Database::delete_organization: DELETE WHERE id, with the foreign key action
Database_delete_organization(orgs, repos, id) ==
  [organizations |-> {r \in orgs : r.id # id},
   repositories |-> IF \E r \in orgs : r.id = id THEN SetNull(repos, id) ELSE repos]

\* Database::save_repository: INSERT OR REPLACE deletes the rows that hold the
\* id (primary key) or the path (UNIQUE); the statement fails, and changes
\* nothing, when organization_id names no organization
Database_save_repository(orgs, repos, repo) ==
  LET old == {r \in repos : r.id = repo.id}
      clash == {r \in repos : r.id = repo.id \/ r.path = repo.path}
      row == [id |-> repo.id, path |-> repo.path, organization_id |-> repo.organization_id,
              created_at |-> IF old = {} THEN repo.updated_at ELSE The(old).created_at,
              updated_at |-> repo.updated_at]
  IN IF \E o \in repo.organization_id : \A r \in orgs : r.id # o
     THEN [ok |-> FALSE, repositories |-> repos]
     ELSE [ok |-> TRUE, repositories |-> (repos \ clash) \cup {row}]

\* Database::get_repositories
Database_get_repositories(repos) == repos

\* Database::delete_repository
Database_delete_repository(repos, id) == {r \in repos : r.id # id}

\* Database::get_settings: fetch_one of the row with id 1 (RowNotFound without it)
Database_get_settings(st) == {r \in st : r.id = 1}

\* Database::update_settings: UPDATE .. WHERE id = 1
Database_update_settings(st, settings, now) ==
  {IF r.id = 1
   THEN [r EXCEPT !.is_first_time = settings.is_first_time, !.theme_mode = settings.theme_mode,
                  !.updated_at = now]
   ELSE r : r \in st}

\* Database::complete_onboarding: UPDATE .. SET is_first_time = FALSE WHERE id = 1
Database_complete_onboarding(st, now) ==
  {IF r.id = 1 THEN [r EXCEPT !.is_first_time = FALSE, !.updated_at = now] ELSE r : r \in st}

----------------------------------------------------------------------------
\* History

Range(s) == {s[i] : i \in DOMAIN s}

Parents(cs, c) == Range(cs[c].parents)

\* every commit reachable from c through parent links, c included
RECURSIVE Ancestors(_, _)
Ancestors(cs, c) ==
  IF c = NoCommit THEN {}
  ELSE {c} \cup UNION {Ancestors(cs, p) : p \in Parents(cs, c)}

\* git_merge_base: the common ancestors of a and b that are not reachable
\* from another common ancestor; with several (criss-cross) git2 returns one
MergeBases(cs, a, b) ==
  LET common == Ancestors(cs, a) \cap Ancestors(cs, b)
  IN {c \in common : \A d \in common : d = c \/ c \notin Ancestors(cs, d)}

TreeOf(cs, c) == IF c = NoCommit THEN EmptyTree ELSE cs[c].tree

\* repo.head().peel_to_commit(): HEAD is symbolic, resolved through its branch
HeadCommit == branches[HEAD]

\* repo.commit(None | Some(ref), sig, sig, msg, tree, parents): append the object
NewCommit(cs, tree, parents) == Append(cs, [tree |-> tree, parents |-> parents])

----------------------------------------------------------------------------
\* Index

\* index.write_tree(): the tree of the stage-0 entries
IndexTree(ix) ==
  [p \in Paths |->
     IF \E e \in ix : e.path = p /\ e.stage = 0
     THEN (CHOOSE e \in ix : e.path = p /\ e.stage = 0).blob
     ELSE Absent]

\* index.has_conflicts(): some entry at stage 1..3
HasConflicts(ix) == \E e \in ix : e.stage > 0

\* a slip of staging: the conflict entries of the path are left in the index
AddPathKeepStages(ix, p, blob) ==
  {e \in ix : e.path # p \/ e.stage > 0} \cup {[path |-> p, stage |-> 0, blob |-> blob]}

\* index.add_path(p): every entry of p is replaced by one stage-0 entry
AddPath(ix, p, blob) ==
  {e \in ix : e.path # p} \cup {[path |-> p, stage |-> 0, blob |-> blob]}

----------------------------------------------------------------------------
\* repo.checkout_tree(treeish, None).  None is git2's default strategy, SAFE:
\* the baseline is the tree HEAD resolves to when the call is made; a path is
\* rewritten only where the target differs from the baseline, and only when
\* the working file still is the baseline's (or already the target's);
\* a working file that is neither makes the whole checkout fail, and a path
\* the target has like the baseline is left as the working tree has it.
CheckoutConflict(base, target, wd) ==
  \E p \in Paths : base[p] # target[p] /\ wd[p] # base[p] /\ wd[p] # target[p]

CheckoutWorkdir(base, target, wd) ==
  [p \in Paths |-> IF base[p] # target[p] THEN target[p] ELSE wd[p]]

CheckoutIndex(base, target, ix) ==
  {e \in ix : base[e.path] = target[e.path]}
    \cup {[path |-> p, stage |-> 0, blob |-> target[p]] :
            p \in {q \in Paths : base[q] # target[q] /\ target[q] # Absent}}

----------------------------------------------------------------------------
Init ==
  /\ commits = <<>>
  /\ branches = [b \in BranchNames |-> NoCommit]
  /\ HEAD = "main"
  /\ workdir = EmptyTree
  /\ index = {}
  /\ plan = NoPlan
  /\ last = Idle
  /\ stashes = <<>>
  /\ remote = [b \in BranchNames |-> NoCommit]
  /\ tracking = [b \in BranchNames |-> NoCommit]
  /\ pending = NoCall
  /\ odb = {}
  /\ InitDatabase

\* the user edits, creates or deletes a file of the working tree, one change at
\* a time: the other files are as staged and nothing else waits to be committed
WriteFile(p, c) ==
  /\ Len(commits) < MaxUserCommits
  /\ workdir[p] # c
  /\ \A q \in Paths \ {p} : workdir[q] = IndexTree(index)[q]
  /\ IndexTree(index) = TreeOf(commits, HeadCommit)
  /\ workdir' = [workdir EXCEPT ![p] = c]
  /\ last' = Idle
  /\ UNCHANGED <<commits, branches, HEAD, index, plan>>
  /\ UNCHANGED <<stashes, remote, tracking, pending, odb, dbvars>>

\* stage_file: index.add_path fails on a file that does not exist
stage_file(p) ==
  /\ IF workdir[p] = Absent
     THEN UNCHANGED index
     ELSE index' = AddPath(index, p, workdir[p])
  /\ last' = Idle
  /\ UNCHANGED <<commits, branches, HEAD, workdir, plan>>
  /\ UNCHANGED <<stashes, remote, tracking, pending, odb, dbvars>>

\* a slip of the parent list: every commit is made a root commit
CommitParentsNone(head) == <<>>

\* let parents = match &parent_commit { Some(commit) => vec![commit], None => vec![] }
CommitParents(head) == IF head = NoCommit THEN <<>> ELSE <<head>>

\* commit_changes: write_tree of the index (it fails on an index with
\* conflicts), parent = HEAD's commit (none when HEAD is unborn),
\* repo.commit(Some("HEAD"), ..) moves HEAD's branch
commit_changes ==
  /\ Len(commits) < MaxUserCommits
  /\ IF HasConflicts(index)
     THEN /\ UNCHANGED <<commits, branches>>
          /\ last' = Result("commit_changes", FALSE, "unmerged", "", HeadCommit, 0, 0,
                            <<>>, <<>>, <<>>)
     ELSE /\ commits' = NewCommit(commits, IndexTree(index), CommitParents(HeadCommit))
          /\ branches' = [branches EXCEPT ![HEAD] = Len(commits')]
          /\ last' = Result("commit_changes", TRUE, "commit", "", HeadCommit, 0, 0,
                            <<>>, <<>>, <<Len(commits')>>)
  /\ UNCHANGED <<HEAD, workdir, index, plan>>
  /\ UNCHANGED <<stashes, remote, tracking, pending, odb, dbvars>>

\* create_branch: repo.branch(name, head_commit, force = false)
create_branch(b) ==
  /\ HeadCommit # NoCommit
  /\ branches[b] = NoCommit
  /\ branches' = [branches EXCEPT ![b] = HeadCommit]
  /\ last' = Idle
  /\ UNCHANGED <<commits, HEAD, workdir, index, plan>>
  /\ UNCHANGED <<stashes, remote, tracking, pending, odb, dbvars>>

\* switch_branch: checkout_tree(target) against the current HEAD, then set_head
switch_branch(b) ==
  /\ branches[b] # NoCommit
  /\ LET base == TreeOf(commits, HeadCommit)
         target == TreeOf(commits, branches[b])
     IN IF CheckoutConflict(base, target, workdir)
        THEN UNCHANGED <<HEAD, workdir, index>>
        ELSE /\ workdir' = CheckoutWorkdir(base, target, workdir)
             /\ index' = CheckoutIndex(base, target, index)
             /\ HEAD' = b
  /\ last' = Idle
  /\ UNCHANGED <<commits, branches, plan>>
  /\ UNCHANGED <<stashes, remote, tracking, pending, odb, dbvars>>

\* merge_branch(branch_name): fast-forward when merge_base(HEAD, target) is
\* HEAD's commit, else a commit with parents [HEAD, target] made by
\* repo.commit(Some("HEAD"), .., &target_commit.tree(), ..)
MergeTree(cs, base, ours, theirs) == TreeOf(cs, theirs)

merge_branch(b) ==
  /\ UNCHANGED <<stashes, remote, tracking, pending, odb, dbvars>>
  /\ LET target == branches[b]
         head == HeadCommit
     IN
     \/ /\ target = NoCommit \/ head = NoCommit \/ MergeBases(commits, head, target) = {}
        /\ last' = Result("merge_branch", FALSE, "error", b, head, 0, target, <<>>, <<>>, <<>>)
        /\ UNCHANGED <<commits, branches, HEAD, workdir, index, plan>>
     \/ /\ target # NoCommit /\ head # NoCommit
        /\ \E mb \in MergeBases(commits, head, target) :
             IF mb = head
             THEN LET moved == [branches EXCEPT ![HEAD] = target]
                      base == TreeOf(commits, moved[HEAD])
                      tree == TreeOf(commits, target)
                  IN /\ branches' = moved
                     /\ IF CheckoutConflict(base, tree, workdir)
                        THEN /\ UNCHANGED <<workdir, index>>
                             /\ last' = Result("merge_branch", FALSE, "ff", b, head, mb, target, <<>>, <<>>, <<>>)
                        ELSE /\ workdir' = CheckoutWorkdir(base, tree, workdir)
                             /\ index' = CheckoutIndex(base, tree, index)
                             /\ last' = Result("merge_branch", TRUE, "ff", b, head, mb, target, <<>>, <<>>, <<>>)
                     /\ UNCHANGED <<commits, HEAD, plan>>
             ELSE /\ Len(commits) < MaxCommits
                  /\ commits' = NewCommit(commits, MergeTree(commits, mb, head, target), <<head, target>>)
                  /\ branches' = [branches EXCEPT ![HEAD] = Len(commits')]
                  /\ last' = Result("merge_branch", TRUE, "merge", b, head, mb, target, <<>>, <<>>, <<Len(commits')>>)
                  /\ UNCHANGED <<HEAD, workdir, index, plan>>

\* rebase_interactive(onto_branch): "Already up to date" when the merge base is
\* HEAD's commit, else HEAD's branch is set to the onto commit and that commit
\* is checked out
rebase_interactive(b) ==
  /\ UNCHANGED <<stashes, remote, tracking, pending, odb, dbvars>>
  /\ LET onto == branches[b]
         head == HeadCommit
     IN
     \/ /\ onto = NoCommit \/ head = NoCommit \/ MergeBases(commits, head, onto) = {}
        /\ last' = Result("rebase_interactive", FALSE, "error", b, head, 0, onto, <<>>, <<>>, <<>>)
        /\ UNCHANGED <<commits, branches, HEAD, workdir, index, plan>>
     \/ /\ onto # NoCommit /\ head # NoCommit
        /\ \E mb \in MergeBases(commits, head, onto) :
             IF mb = head
             THEN /\ last' = Result("rebase_interactive", TRUE, "uptodate", b, head, mb, onto, <<>>, <<>>, <<>>)
                  /\ UNCHANGED <<branches, workdir, index>>
             ELSE LET moved == [branches EXCEPT ![HEAD] = onto]
                      base == TreeOf(commits, moved[HEAD])
                      tree == TreeOf(commits, onto)
                  IN /\ branches' = moved
                     /\ IF CheckoutConflict(base, tree, workdir)
                        THEN /\ UNCHANGED <<workdir, index>>
                             /\ last' = Result("rebase_interactive", FALSE, "moved", b, head, mb, onto, <<>>, <<>>, <<>>)
                        ELSE /\ workdir' = CheckoutWorkdir(base, tree, workdir)
                             /\ index' = CheckoutIndex(base, tree, index)
                             /\ last' = Result("rebase_interactive", TRUE, "moved", b, head, mb, onto, <<>>, <<>>, <<>>)
        /\ UNCHANGED <<commits, HEAD, plan>>

\* the elements of a set of commit ids, oldest (smallest) first
RECURSIVE Ascending(_)
Ascending(S) ==
  IF S = {} THEN <<>>
  ELSE LET m == CHOOSE x \in S : \A y \in S : x <= y
       IN <<m>> \o Ascending(S \ {m})

\* revwalk.push_head(); revwalk.hide(from): the commits reachable from HEAD and
\* not from `from`, newest first; commits.reverse() makes it oldest first
RebaseRange(cs, head, from) == Ascending(Ancestors(cs, head) \ Ancestors(cs, from))

\* prepare_interactive_rebase(onto_branch, from_commit): every entry is Pick;
\* onto_branch is copied into the plan as given
prepare_interactive_rebase(b, from) ==
  /\ Len(commits) <= MaxUserCommits
  /\ Len(RebaseRange(commits, HeadCommit, from)) <= MaxPlan
  /\ IF HeadCommit = NoCommit
     THEN UNCHANGED plan
     ELSE plan' = [commits |-> RebaseRange(commits, HeadCommit, from), onto |-> b]
  /\ last' = Idle
  /\ UNCHANGED <<commits, branches, HEAD, workdir, index>>
  /\ UNCHANGED <<stashes, remote, tracking, pending, odb, dbvars>>

\* one iteration of the loop over rebase_plan.commits: Drop continues; Pick,
\* Reword and the catch-all arm (Squash, Edit) each look the step's commit up
\* (an id that names no commit fails the command there) and commit its own
\* tree with the current commit as the only parent
ReplayStep(cs, cur, id, action) ==
  CASE action = "Drop" -> [cs |-> cs, cur |-> cur, new |-> <<>>, err |-> FALSE]
    [] action # "Drop" /\ id \notin DOMAIN cs ->
         [cs |-> cs, cur |-> cur, new |-> <<>>, err |-> TRUE]
    [] action = "Pick" /\ id \in DOMAIN cs ->
         LET cs2 == NewCommit(cs, cs[id].tree, <<cur>>)
         IN [cs |-> cs2, cur |-> Len(cs2), new |-> <<Len(cs2)>>, err |-> FALSE]
    [] action = "Reword" /\ id \in DOMAIN cs ->
         LET cs2 == NewCommit(cs, cs[id].tree, <<cur>>)
         IN [cs |-> cs2, cur |-> Len(cs2), new |-> <<Len(cs2)>>, err |-> FALSE]
    [] OTHER ->
         LET cs2 == NewCommit(cs, cs[id].tree, <<cur>>)
         IN [cs |-> cs2, cur |-> Len(cs2), new |-> <<Len(cs2)>>, err |-> FALSE]

\* the loop: `?` leaves it at the first step that fails
RECURSIVE Replay(_, _, _, _, _)
Replay(cs, cur, ids, acts, made) ==
  IF ids = <<>> THEN [cs |-> cs, cur |-> cur, made |-> made, err |-> FALSE]
  ELSE LET r == ReplayStep(cs, cur, Head(ids), Head(acts))
       IN IF r.err THEN [cs |-> cs, cur |-> cur, made |-> made, err |-> TRUE]
          ELSE Replay(r.cs, r.cur, Tail(ids), Tail(acts), made \o r.new)

\* a slip of the final update: HEAD's branch is set to the first new commit
RebaseTargetFirst(old, made) == IF made = <<>> THEN old ELSE made[1]

\* if let Some(last_commit_id) = new_commits.last() { head.set_target(..) }
RebaseTarget(old, made) == IF made = <<>> THEN old ELSE made[Len(made)]

NonDrop(acts) == Cardinality({i \in DOMAIN acts : acts[i] # "Drop"})

\* a slip of the error path: the commits made before the failure are published
ErrTargetPartial(old, made) == IF made = <<>> THEN old ELSE made[Len(made)]

\* a step's `?` returns before head.set_target is reached
ErrTarget(old, made) == old

\* the plan the caller sends: the prepared one, or with the id at position bad
\* replaced by one that names no commit
SentIds(ids, bad) == [i \in DOMAIN ids |-> IF i = bad THEN NoCommit ELSE ids[i]]

\* execute_interactive_rebase(rebase_plan): the plan is the prepared one with
\* the actions the caller chose for its entries; the plan is moved into the call
execute_interactive_rebase(acts, bad) ==
  /\ plan # NoPlan
  /\ Len(commits) + NonDrop(acts) <= MaxCommits
  /\ IF branches[plan.onto] = NoCommit
     THEN /\ last' = Result("execute_interactive_rebase", FALSE, "error", plan.onto,
                            HeadCommit, 0, NoCommit, SentIds(plan.commits, bad), acts, <<>>)
          /\ UNCHANGED <<commits, branches>>
     ELSE LET ids == SentIds(plan.commits, bad)
              r == Replay(commits, branches[plan.onto], ids, acts, <<>>)
          IN /\ commits' = r.cs
             /\ IF r.err
                THEN /\ branches' = [branches EXCEPT ![HEAD] = ErrTarget(@, r.made)]
                     /\ last' = Result("execute_interactive_rebase", FALSE, "failed", plan.onto,
                                       HeadCommit, 0, branches[plan.onto], ids, acts, r.made)
                ELSE /\ branches' = [branches EXCEPT ![HEAD] = RebaseTarget(@, r.made)]
                     /\ last' = Result("execute_interactive_rebase", TRUE, "done", plan.onto,
                                       HeadCommit, 0, branches[plan.onto], ids, acts, r.made)
  /\ plan' = NoPlan
  /\ UNCHANGED <<HEAD, workdir, index>>
  /\ UNCHANGED <<stashes, remote, tracking, pending, odb, dbvars>>

----------------------------------------------------------------------------
\* Stashes.  A stash is the commit stash_save makes: `tree` is the working
\* tree state of the tracked files, `base` its first parent (HEAD's commit
\* when it was made), `id` its place in the order of creation.

\* what a command outside the history commands reports: as Result, with the
\* value it was given or returns
Reply(op, ok, kind, arg, val) ==
  [op |-> op, ok |-> ok, kind |-> kind, arg |-> arg, old |-> HeadCommit, mb |-> NoCommit,
   target |-> NoCommit, ids |-> <<>>, acts |-> <<>>, made |-> <<>>, val |-> val]

\* a path git follows: it is in the index or in HEAD's tree
Tracked(p) == (\E e \in index : e.path = p) \/ TreeOf(commits, HeadCommit)[p] # Absent

\* the stage-0 entries of a tree
TreeIndex(t) == {[path |-> p, stage |-> 0, blob |-> t[p]] : p \in {q \in Paths : t[q] # Absent}}

\* the next stash commit is newer than every stash commit written so far
NextStashId(objs) ==
  LET ids == {0} \cup {o.id : o \in objs}
  IN 1 + (CHOOSE m \in ids : \A n \in ids : n <= m)

\* a slip of the push: the new stash goes to the end of the list
StashPushBack(st, e) == Append(st, e)

\* stash_save: the new entry becomes stash@{0}
StashPush(st, e) == <<e>> \o st

\* stash_drop(index): the reflog entry at index (from 0) is removed
StashDrop(st, i) == SubSeq(st, 1, i) \o SubSeq(st, i + 2, Len(st))

\* a slip of apply: the entry is popped when the apply succeeds
StashAfterPop(st, i, ok) == IF ok THEN StashDrop(st, i) ELSE st

\* stash_apply leaves refs/stash alone
StashAfterApply(st, i, ok) == st

\* create_stash: stash_save(DEFAULT) needs a commit at HEAD, an index without
\* conflicts and a change in a tracked file; it records the tracked files of
\* the working tree and resets them and the index to HEAD
create_stash ==
  /\ NextStashId(odb) <= MaxStashes
  /\ LET head == TreeOf(commits, HeadCommit)
         changed == \E p \in Paths :
                      Tracked(p) /\ (IndexTree(index)[p] # head[p] \/ workdir[p] # IndexTree(index)[p])
         e == [id |-> NextStashId(odb), base |-> HeadCommit,
               tree |-> [p \in Paths |-> IF Tracked(p) THEN workdir[p] ELSE Absent]]
     IN IF HeadCommit = NoCommit \/ HasConflicts(index) \/ ~changed
        THEN /\ last' = Reply("create_stash", FALSE, "error", "", 0)
             /\ UNCHANGED <<stashes, workdir, index, odb>>
        ELSE /\ stashes' = StashPush(stashes, e)
             /\ odb' = odb \cup {e}
             /\ workdir' = [p \in Paths |-> IF Tracked(p) THEN head[p] ELSE workdir[p]]
             /\ index' = TreeIndex(head)
             /\ last' = Reply("create_stash", TRUE, "saved", "", e.id)
  /\ UNCHANGED <<commits, branches, HEAD, plan, remote, tracking, pending, dbvars>>

\* get_stashes: stash_foreach gives (index, message, oid) from stash@{0} on;
\* an entry whose commit cannot be read is left out
get_stashes(st) == [k \in DOMAIN st |-> [index |-> k - 1, id |-> st[k].id]]

\* the file checkout writes for a path in conflict: both contents between markers
MarkedBlob == MaxContent + 1

\* apply_stash(index): stash_apply(index, None).  The stash's changes since
\* its base are merged into HEAD's tree (the index must be as HEAD) and the
\* result is checked out safely: a working file that differs from the index
\* where the result differs stops the apply with nothing written.  A path both
\* changed differently gets stage 1/2/3 entries and a file with markers.
apply_stash(i) ==
  /\ IF i >= Len(stashes) \/ HeadCommit = NoCommit
        \/ HasConflicts(index) \/ IndexTree(index) # TreeOf(commits, HeadCommit)
     THEN /\ last' = Reply("apply_stash", FALSE, "error", "", i)
          /\ stashes' = StashAfterApply(stashes, i, FALSE)
          /\ UNCHANGED <<workdir, index>>
     ELSE LET B == TreeOf(commits, stashes[i + 1].base)
              I == IndexTree(index)
              W == stashes[i + 1].tree
              conflict == {p \in Paths : W[p] # B[p] /\ I[p] # B[p] /\ I[p] # W[p]}
              merged == [p \in Paths |-> IF W[p] = B[p] THEN I[p] ELSE W[p]]
              written == {p \in Paths : p \in conflict \/ merged[p] # I[p]}
          IN IF \E p \in written : workdir[p] # I[p] /\ (p \in conflict \/ workdir[p] # merged[p])
             THEN /\ last' = Reply("apply_stash", FALSE, "conflict", "", i)
                  /\ stashes' = StashAfterApply(stashes, i, FALSE)
                  /\ UNCHANGED <<workdir, index>>
             ELSE /\ workdir' = [p \in Paths |->
                                   IF p \in conflict THEN MarkedBlob
                                   ELSE IF p \in written THEN merged[p] ELSE workdir[p]]
                  /\ index' =
                       IF conflict = {}
                       THEN index \cup {[path |-> p, stage |-> 0, blob |-> W[p]] :
                                          p \in {q \in Paths : B[q] = Absent /\ W[q] # Absent}}
                       ELSE {e \in index : e.path \notin written}
                              \cup {[path |-> p, stage |-> 0, blob |-> merged[p]] :
                                      p \in {q \in written \ conflict : merged[q] # Absent}}
                              \cup {[path |-> p, stage |-> 1, blob |-> B[p]] :
                                      p \in {q \in conflict : B[q] # Absent}}
                              \cup {[path |-> p, stage |-> 2, blob |-> I[p]] :
                                      p \in {q \in conflict : I[q] # Absent}}
                              \cup {[path |-> p, stage |-> 3, blob |-> W[p]] :
                                      p \in {q \in conflict : W[q] # Absent}}
                  /\ stashes' = StashAfterApply(stashes, i, TRUE)
                  /\ last' = Reply("apply_stash", TRUE,
                                   IF conflict = {} THEN "applied" ELSE "conflicts", "", i)
  /\ UNCHANGED <<commits, branches, HEAD, plan, remote, tracking, pending, odb, dbvars>>

\* a slip of the drop: the stash commit is deleted with its reflog entry
StoreAfterPrune(objs, e) == objs \ {e}

\* stash_drop rewrites the reflog of refs/stash; the stash commit stays stored
StoreAfterDrop(objs, e) == objs

\* drop_stash(index): stash_drop fails when there is no such entry
drop_stash(i) ==
  /\ IF i >= Len(stashes)
     THEN /\ last' = Reply("drop_stash", FALSE, "error", "", i)
          /\ UNCHANGED <<stashes, odb>>
     ELSE /\ stashes' = StashDrop(stashes, i)
          /\ odb' = StoreAfterDrop(odb, stashes[i + 1])
          /\ last' = Reply("drop_stash", TRUE, "dropped", "", i)
  /\ UNCHANGED <<commits, branches, HEAD, workdir, index, plan, remote, tracking, pending, dbvars>>

\* resolve_conflict(file_path, resolution): fs::write of the file, then
\* index.add_path and index.write; `fails`: the index cannot be written (its
\* lock is held by another process).  The caller resolves a path in conflict,
\* or names a path of a clean working tree.
resolve_conflict(p, c, fails) ==
  /\ \/ \E e \in index : e.path = p /\ e.stage > 0
     \/ /\ workdir = IndexTree(index)
        /\ index = TreeIndex(TreeOf(commits, HeadCommit))
  /\ workdir' = [workdir EXCEPT ![p] = c]
  /\ IF fails
     THEN /\ UNCHANGED index
          /\ last' = Reply("resolve_conflict", FALSE, "error", p, c)
     ELSE /\ index' = AddPath(index, p, c)
          /\ last' = Reply("resolve_conflict", TRUE,
                           IF \E e \in index : e.path = p /\ e.stage > 0
                           THEN "conflict" ELSE "plain", p, c)
  /\ UNCHANGED <<commits, branches, HEAD, plan, stashes, remote, tracking, pending, odb, dbvars>>

\* index.conflicts() as get_merge_conflicts reads it: an entry is pushed only
\* under `if let (Some(ancestor), Some(our), Some(their))`, with the three
\* blobs' contents as Strings; a conflict with a side missing is passed over
MergeConflicts(ix) ==
  {[file_path |-> p,
    ancestor_content |-> (CHOOSE e \in ix : e.path = p /\ e.stage = 1).blob,
    our_content |-> (CHOOSE e \in ix : e.path = p /\ e.stage = 2).blob,
    their_content |-> (CHOOSE e \in ix : e.path = p /\ e.stage = 3).blob] :
     p \in {q \in Paths : \A s \in 1..3 : \E e \in ix : e.path = q /\ e.stage = s}}

\* get_merge_conflicts: reads the index, changes nothing
get_merge_conflicts ==
  /\ last' = Reply("get_merge_conflicts", TRUE,
                   IF HasConflicts(index) THEN "conflicts" ELSE "clean", "",
                   MergeConflicts(index))
  /\ UNCHANGED <<commits, branches, HEAD, workdir, index, plan, stashes, remote, tracking, pending, odb, dbvars>>

----------------------------------------------------------------------------
\* The remote.  `commits` holds the objects of both repositories: a commit
\* another clone pushed is used here only once a fetch has stored it in a
\* remote-tracking reference.

\* another clone pushes a commit that changes one file to a branch of the remote
RemotePush(b, p, c) ==
  /\ Len(commits) < MaxUserCommits
  /\ remote[b] # NoCommit
  /\ TreeOf(commits, remote[b])[p] # c
  /\ commits' = NewCommit(commits, [TreeOf(commits, remote[b]) EXCEPT ![p] = c], <<remote[b]>>)
  /\ remote' = [remote EXCEPT ![b] = Len(commits')]
  /\ last' = Idle
  /\ UNCHANGED <<branches, HEAD, workdir, index, plan, stashes, tracking, pending, odb, dbvars>>

\* push_to_remote(remote, branch): refs/heads/b:refs/heads/b, not forced; the
\* remote takes a fast-forward only; the tracking reference follows
push_to_remote(b) ==
  /\ branches[b] # NoCommit
  /\ remote[b] = NoCommit \/ remote[b] \in Ancestors(commits, branches[b])
  /\ remote' = [remote EXCEPT ![b] = branches[b]]
  /\ tracking' = [tracking EXCEPT ![b] = branches[b]]
  /\ last' = Idle
  /\ UNCHANGED <<commits, branches, HEAD, workdir, index, plan, stashes, pending, odb, dbvars>>

\* a slip: the error of remote.fetch is dropped and the command goes on
FetchIgnored(fails) == FALSE

\* remote.fetch(..).map_err(..)?: the command ends when the fetch fails
FetchStops(fails) == fails

\* remote.fetch with the remote's refspec: refs/remotes/origin/* follow the remote
Fetched(tr, rm) == rm

\* fetch_from_remote(remote): `fails` is the network's (or the credentials') doing
fetch_from_remote(fails) ==
  /\ IF FetchStops(fails)
     THEN /\ last' = Reply("fetch_from_remote", FALSE, "fetch_failed", "", fails)
          /\ UNCHANGED tracking
     ELSE /\ tracking' = IF fails THEN tracking ELSE Fetched(tracking, remote)
          /\ last' = Reply("fetch_from_remote", TRUE, "fetched", "", fails)
  /\ UNCHANGED <<commits, branches, HEAD, workdir, index, plan, stashes, remote, pending, odb, dbvars>>

\* pull_from_remote(remote, branch_name): fetch; when merge_base(HEAD's commit,
\* refs/remotes/origin/branch_name) is HEAD's commit, refs/heads/branch_name is
\* set to the remote commit and that commit is checked out; else Ok, nothing done
pull_from_remote(b, fails) ==
  LET tr == IF fails THEN tracking ELSE Fetched(tracking, remote)
      rc == tr[b]
      cur == HeadCommit
      Err(kind) == /\ last' = Reply("pull_from_remote", FALSE, kind, b, fails)
                   /\ UNCHANGED <<branches, workdir, index>>
  IN
  /\ UNCHANGED <<commits, HEAD, plan, stashes, remote, pending, odb, dbvars>>
  /\ IF FetchStops(fails)
     THEN /\ Err("fetch_failed")
          /\ UNCHANGED tracking
     ELSE /\ tracking' = tr
          /\ IF rc = NoCommit \/ cur = NoCommit \/ MergeBases(commits, cur, rc) = {}
             THEN Err("error")
             ELSE \E mb \in MergeBases(commits, cur, rc) :
                    IF mb # cur
                    THEN /\ last' = Reply("pull_from_remote", TRUE, "fetched", b, fails)
                         /\ UNCHANGED <<branches, workdir, index>>
                    ELSE IF branches[b] = NoCommit
                    THEN Err("error")
                    ELSE LET moved == [branches EXCEPT ![b] = rc]
                             base == TreeOf(commits, moved[HEAD])
                             tree == TreeOf(commits, rc)
                         IN /\ branches' = moved
                            /\ IF CheckoutConflict(base, tree, workdir)
                               THEN /\ UNCHANGED <<workdir, index>>
                                    /\ last' = Reply("pull_from_remote", FALSE, "ff", b, fails)
                               ELSE /\ workdir' = CheckoutWorkdir(base, tree, workdir)
                                    /\ index' = CheckoutIndex(base, tree, index)
                                    /\ last' = Reply("pull_from_remote", TRUE, "ff", b, fails)

----------------------------------------------------------------------------
\* Two processes on one repository.  The commands above run in the first; a
\* command of the second is taken in two steps, what it reads (HEAD's commit,
\* the target, the tree to commit) and what it writes, and the first process
\* may run between the two.

Call(op, kind, arg, target, tree) ==
  [op |-> op, kind |-> kind, arg |-> arg, ref |-> HEAD, head |-> HeadCommit,
   target |-> target, tree |-> tree]

\* repo.commit(Some("HEAD"), .., parents): git_commit_create refuses when the
\* reference's commit is not the first parent ("current tip is not the first parent")
CommitRefused(tip, parent) == tip # parent

\* merge_branch up to the merge base: the path is chosen from what was read
merge_branch_read(b) ==
  /\ pending = NoCall
  /\ branches[b] # NoCommit /\ HeadCommit # NoCommit
  /\ \E mb \in MergeBases(commits, HeadCommit, branches[b]) :
       pending' = Call("merge_branch", IF mb = HeadCommit THEN "ff" ELSE "merge", b,
                       branches[b], MergeTree(commits, mb, HeadCommit, branches[b]))
  /\ last' = Idle
  /\ UNCHANGED <<commits, branches, HEAD, workdir, index, plan, stashes, remote, tracking, odb, dbvars>>

\* merge_branch from there: repo.reference(head_ref.name(), target, force = true)
\* and the checkout, or repo.commit(Some("HEAD"), .., [head, target])
merge_branch_write ==
  /\ pending.op = "merge_branch"
  /\ pending' = NoCall
  /\ IF pending.kind = "ff"
     THEN /\ branches' = [branches EXCEPT ![HEAD] = pending.target]
          /\ last' = Result("merge_branch", TRUE, "ff", pending.arg, pending.head, pending.head,
                            pending.target, <<>>, <<>>, <<>>)
          /\ UNCHANGED commits
     ELSE IF CommitRefused(HeadCommit, pending.head)
     THEN /\ last' = Result("merge_branch", FALSE, "merge", pending.arg, pending.head, 0,
                            pending.target, <<>>, <<>>, <<>>)
          /\ UNCHANGED <<commits, branches>>
     ELSE /\ Len(commits) < MaxCommits
          /\ commits' = NewCommit(commits, pending.tree, <<pending.head, pending.target>>)
          /\ branches' = [branches EXCEPT ![HEAD] = Len(commits')]
          /\ last' = Result("merge_branch", TRUE, "merge", pending.arg, pending.head, 0,
                            pending.target, <<>>, <<>>, <<Len(commits')>>)
  /\ UNCHANGED <<HEAD, workdir, index, plan, stashes, remote, tracking, odb, dbvars>>

\* rebase_interactive up to the merge base; "Already up to date" ends it there
rebase_interactive_read(b) ==
  /\ pending = NoCall
  /\ branches[b] # NoCommit /\ HeadCommit # NoCommit
  /\ \E mb \in MergeBases(commits, HeadCommit, branches[b]) :
       /\ mb # HeadCommit
       /\ pending' = Call("rebase_interactive", "moved", b, branches[b], <<>>)
  /\ last' = Idle
  /\ UNCHANGED <<commits, branches, HEAD, workdir, index, plan, stashes, remote, tracking, odb, dbvars>>

\* rebase_interactive from there: repo.reference(head_ref.name(), onto, force = true)
rebase_interactive_write ==
  /\ pending.op = "rebase_interactive"
  /\ pending' = NoCall
  /\ branches' = [branches EXCEPT ![HEAD] = pending.target]
  /\ last' = Result("rebase_interactive", TRUE, "moved", pending.arg, pending.head, 0,
                    pending.target, <<>>, <<>>, <<>>)
  /\ UNCHANGED <<commits, HEAD, workdir, index, plan, stashes, remote, tracking, odb, dbvars>>

\* commit_changes up to the parent: index.write_tree and repo.head()
commit_changes_read ==
  /\ pending = NoCall
  /\ Len(commits) < MaxUserCommits
  /\ ~HasConflicts(index)
  /\ pending' = Call("commit_changes", "commit", "", NoCommit, IndexTree(index))
  /\ last' = Idle
  /\ UNCHANGED <<commits, branches, HEAD, workdir, index, plan, stashes, remote, tracking, odb, dbvars>>

\* commit_changes from there: repo.commit(Some("HEAD"), .., tree, parents)
commit_changes_write ==
  /\ pending.op = "commit_changes"
  /\ pending' = NoCall
  /\ IF CommitRefused(HeadCommit, pending.head)
     THEN /\ last' = Result("commit_changes", FALSE, "commit", "", pending.head, 0, 0,
                            <<>>, <<>>, <<>>)
          /\ UNCHANGED <<commits, branches>>
     ELSE /\ Len(commits) < MaxCommits
          /\ commits' = NewCommit(commits, pending.tree,
                          IF pending.head = NoCommit THEN <<>> ELSE <<pending.head>>)
          /\ branches' = [branches EXCEPT ![HEAD] = Len(commits')]
          /\ last' = Result("commit_changes", TRUE, "commit", "", pending.head, 0, 0,
                            <<>>, <<>>, <<Len(commits')>>)
  /\ UNCHANGED <<HEAD, workdir, index, plan, stashes, remote, tracking, odb, dbvars>>

----------------------------------------------------------------------------
\* cherry_pick_commit and reset_to_commit

\* cherry_pick_commit(commit_id): find_commit, HEAD's commit, then
\* repo.commit(Some("HEAD"), .., &commit.tree(), &[&head_commit]); the index
\* and the working tree are not touched
cherry_pick_commit(c) ==
  /\ Len(commits) < MaxCommits
  /\ IF c \notin DOMAIN commits \/ HeadCommit = NoCommit
     THEN /\ last' = Result("cherry_pick_commit", FALSE, "error", "", HeadCommit, 0, c,
                            <<>>, <<>>, <<>>)
          /\ UNCHANGED <<commits, branches>>
     ELSE /\ commits' = NewCommit(commits, commits[c].tree, <<HeadCommit>>)
          /\ branches' = [branches EXCEPT ![HEAD] = Len(commits')]
          /\ last' = Result("cherry_pick_commit", TRUE, "picked", "", HeadCommit, 0, c,
                            <<>>, <<>>, <<Len(commits')>>)
  /\ UNCHANGED <<HEAD, workdir, index, plan, stashes, remote, tracking, pending, odb, dbvars>>

\* match reset_type.as_str()
ResetTypes == {"soft", "mixed", "hard"}

\* reset_to_commit(commit_id, reset_type): repo.reset moves HEAD's branch to
\* the commit; Mixed and Hard also make the index the commit's tree; Hard also
\* writes the files git follows.  Soft refuses an index with conflicts.
reset_to_commit(c, type) ==
  /\ IF c \notin DOMAIN commits \/ type \notin ResetTypes
        \/ (type = "soft" /\ HasConflicts(index))
     THEN /\ last' = Result("reset_to_commit", FALSE, "error", type, HeadCommit, 0, c,
                            <<>>, <<>>, <<>>)
          /\ UNCHANGED <<branches, workdir, index>>
     ELSE LET tree == TreeOf(commits, c)
          IN /\ branches' = [branches EXCEPT ![HEAD] = c]
             /\ index' = IF type = "soft" THEN index ELSE TreeIndex(tree)
             /\ workdir' = IF type = "hard"
                           THEN [p \in Paths |->
                                   IF Tracked(p) \/ tree[p] # Absent THEN tree[p] ELSE workdir[p]]
                           ELSE workdir
             /\ last' = Result("reset_to_commit", TRUE, type, type, HeadCommit, 0, c,
                               <<>>, <<>>, <<>>)
  /\ UNCHANGED <<commits, HEAD, plan, stashes, remote, tracking, pending, odb, dbvars>>

----------------------------------------------------------------------------
\* The log.  The commands walk a repository as it is when the application
\* opens it: any history, its commits stamped by the clocks of the machines
\* that made them.  Here a commit also carries `time`, commit.time().seconds().

\* Option<usize>: {} is None, {n} is Some(n)
UnwrapOr(opt, d) == IF opt = {} THEN d ELSE CHOOSE n \in opt : TRUE

\* limit.unwrap_or(50) of get_commits, limit.unwrap_or(100) of get_log_graph
DefaultCommits == 50
DefaultEntries == 100

\* git_commit_list_insert_by_date: before the first commit of the list that is
\* older, so after those of the same time
InsertByDate(cs, list, c) ==
  LET k == Cardinality({i \in DOMAIN list : cs[list[i]].time >= cs[c].time})
  IN SubSeq(list, 1, k) \o <<c>> \o SubSeq(list, k + 1, Len(list))

\* add_parents_to_list: the parents not seen yet, in their order in the commit
RECURSIVE AddParents(_, _, _, _)
AddParents(cs, list, seen, ps) ==
  IF ps = <<>> THEN [list |-> list, seen |-> seen]
  ELSE IF Head(ps) \in seen THEN AddParents(cs, list, seen, Tail(ps))
  ELSE AddParents(cs, InsertByDate(cs, list, Head(ps)), seen \cup {Head(ps)}, Tail(ps))

\* repo.revwalk() with no set_sorting call is Sort::NONE: the walk gives the
\* first commit of its date-ordered list and then puts that commit's parents in
RECURSIVE Revwalk(_, _, _)
Revwalk(cs, list, seen) ==
  IF list = <<>> THEN <<>>
  ELSE LET r == AddParents(cs, Tail(list), seen, cs[Head(list)].parents)
       IN <<Head(list)>> \o Revwalk(cs, r.list, r.seen)

\* revwalk.push_head() and then the walk
WalkHead(cs, head) == Revwalk(cs, <<head>>, {head})

\* for (i, oid) in revwalk.enumerate() { if i >= max { break; } .. }
Take(s, n) == SubSeq(s, 1, IF n < Len(s) THEN n ELSE Len(s))

\* get_commits(limit): push_head fails when HEAD is unborn
get_commits(limit) ==
  /\ last' = IF HeadCommit = NoCommit
             THEN Reply("get_commits", FALSE, "error", "", [limit |-> limit, ids |-> <<>>])
             ELSE Reply("get_commits", TRUE, "listed", "",
                        [limit |-> limit,
                         ids |-> Take(WalkHead(commits, HeadCommit), UnwrapOr(limit, DefaultCommits))])
  /\ UNCHANGED <<commits, branches, HEAD, workdir, index, plan, stashes, remote, tracking, pending, odb, dbvars>>

\* get_log_graph(limit): the same walk; each entry also has the commit's
\* parents and the references at it
get_log_graph(limit) ==
  /\ last' = IF HeadCommit = NoCommit
             THEN Reply("get_log_graph", FALSE, "error", "", [limit |-> limit, ids |-> <<>>])
             ELSE Reply("get_log_graph", TRUE, "listed", "",
                        [limit |-> limit,
                         ids |-> Take(WalkHead(commits, HeadCommit), UnwrapOr(limit, DefaultEntries))])
  /\ UNCHANGED <<commits, branches, HEAD, workdir, index, plan, stashes, remote, tracking, pending, odb, dbvars>>

\* what the user does in the working tree and the commands that record it
Core ==
  \/ \E p \in Paths, c \in {Absent} \cup Blobs : WriteFile(p, c)
  \/ \E p \in Paths : stage_file(p)
  \/ commit_changes
  \/ \E b \in BranchNames : create_branch(b)
  \/ \E b \in BranchNames : switch_branch(b)

\* committing, branching, merging and the one-step rebase
Next ==
  \/ Core
  \/ \E b \in BranchNames : merge_branch(b)
  \/ \E b \in BranchNames : rebase_interactive(b)

Spec == Init /\ [][Next]_vars

\* committing, branching and the planned rebase
NextRebase ==
  \/ Core
  \/ \E b \in BranchNames, from \in 1..Len(commits) : prepare_interactive_rebase(b, from)
  \/ \E acts \in [1..Len(plan.commits) -> RebaseAction], bad \in 0..Len(plan.commits) :
       execute_interactive_rebase(acts, bad)

SpecRebase == Init /\ [][NextRebase]_vars

\* committing and branching in one process, a writer in a second one
NextConcurrent ==
  \/ Core
  \/ \E b \in BranchNames : merge_branch_read(b)
  \/ merge_branch_write
  \/ \E b \in BranchNames : rebase_interactive_read(b)
  \/ rebase_interactive_write
  \/ commit_changes_read
  \/ commit_changes_write

SpecConcurrent == Init /\ [][NextConcurrent]_vars

\* committing, branching and the remote; the other clone edits one file
RemotePaths == {"f"}

NextRemote ==
  \/ Core
  \/ \E b \in BranchNames, p \in RemotePaths, c \in Blobs : RemotePush(b, p, c)
  \/ \E b \in BranchNames : push_to_remote(b)
  \/ \E fails \in BOOLEAN : fetch_from_remote(fails)
  \/ \E b \in BranchNames, fails \in BOOLEAN : pull_from_remote(b, fails)

SpecRemote == Init /\ [][NextRemote]_vars

\* the stash stack: commits on one branch, edits of one file, stashes
StashPaths == {"f"}

NextStash ==
  \/ \E p \in StashPaths, c \in {Absent} \cup Blobs : WriteFile(p, c)
  \/ \E p \in StashPaths : stage_file(p)
  \/ Len(commits) < MaxStashHistory /\ commit_changes
  \/ create_stash
  \/ \E i \in 0..Len(stashes) : apply_stash(i)
  \/ \E i \in 0..Len(stashes) : drop_stash(i)

SpecStash == Init /\ [][NextStash]_vars

\* conflicts and their resolution: commits on one branch, one stash whose
\* apply leaves conflicts in the index, resolve_conflict
NextResolve ==
  \/ \E p \in Paths, c \in {Absent} \cup Blobs : WriteFile(p, c)
  \/ \E p \in Paths : stage_file(p)
  \/ Len(commits) < MaxStashHistory /\ commit_changes
  \/ Len(stashes) < MaxResolveStashes /\ create_stash
  \/ \E i \in 0..Len(stashes) : apply_stash(i)
  \/ \E p \in Paths, c \in Blobs, fails \in BOOLEAN : resolve_conflict(p, c, fails)
  \/ get_merge_conflicts

SpecResolve == Init /\ [][NextResolve]_vars

\* committing, branching and picking a commit onto HEAD
NextPick ==
  \/ Core
  \/ \E c \in 0..Len(commits) : cherry_pick_commit(c)

SpecPick == Init /\ [][NextPick]_vars

\* committing on two branches with conflicts in the index: one stash, whose
\* apply after a commit to the same path leaves stage 1-3 entries
NextCommit ==
  \/ \E p \in Paths, c \in {Absent} \cup Blobs : WriteFile(p, c)
  \/ \E p \in Paths : stage_file(p)
  \/ commit_changes
  \/ \E b \in BranchNames : create_branch(b)
  \/ \E b \in BranchNames : switch_branch(b)
  \/ Cardinality(odb) < MaxResolveStashes /\ create_stash
  \/ \E i \in 0..Len(stashes) : apply_stash(i)

SpecCommit == Init /\ [][NextCommit]_vars

\* every command that writes objects or moves references, while the store has
\* up to MaxObjects commits: one file that is there or not, a stash made once,
\* a pick of a branch's commit, a reset to a parent of HEAD's commit, a plan
\* from the merge base
NextObjects ==
  \/ \E p \in StashPaths, c \in {Absent, MaxContent} : WriteFile(p, c)
  \/ \E p \in StashPaths : stage_file(p)
  \/ Len(commits) < MaxObjects /\ commit_changes
  \/ \E b \in BranchNames : create_branch(b)
  \/ \E b \in BranchNames : switch_branch(b)
  \/ Len(commits) < MaxObjects /\ \E b \in BranchNames : merge_branch(b)
  \/ /\ Len(commits) < MaxObjects
     /\ \E c \in {branches[b] : b \in BranchNames} \ {NoCommit} : cherry_pick_commit(c)
  \/ \E b \in BranchNames : rebase_interactive(b)
  \/ \E b \in BranchNames : \E from \in MergeBases(commits, HeadCommit, branches[b]) :
       prepare_interactive_rebase(b, from)
  \/ \E acts \in [1..Len(plan.commits) -> {"Pick", "Drop"}], bad \in 0..Len(plan.commits) :
       /\ Len(commits) + NonDrop(acts) <= MaxObjects
       /\ execute_interactive_rebase(acts, bad)
  \/ /\ HeadCommit # NoCommit
     /\ \E c \in Parents(commits, HeadCommit), type \in ResetTypes : reset_to_commit(c, type)
  \/ Cardinality(odb) < MaxResolveStashes /\ create_stash
  \/ \E i \in 0..Len(stashes) : drop_stash(i)

SpecObjects == Init /\ [][NextObjects]_vars

\* the log of a repository that is opened with its history: up to MaxWalk
\* commits, each with up to two earlier commits as parents and a time of
\* 1..MaxTime; HEAD is on main, at the commit stored last
WalkParents(i) ==
  {<<>>} \cup {<<a>> : a \in 1..(i - 1)}
         \cup {p \in (1..(i - 1)) \X (1..(i - 1)) : p[1] # p[2]}

Histories ==
  UNION {{h \in [1..n -> [tree : {EmptyTree},
                          parents : WalkParents(MaxWalk),
                          time : 1..MaxTime]] :
            \A i \in 1..n : h[i].parents \in WalkParents(i)} : n \in 0..MaxWalk}

InitWalk ==
  /\ commits \in Histories
  /\ branches = [b \in BranchNames |-> IF b = "main" THEN Len(commits) ELSE NoCommit]
  /\ HEAD = "main"
  /\ workdir = EmptyTree
  /\ index = {}
  /\ plan = NoPlan
  /\ last = Idle
  /\ stashes = <<>>
  /\ remote = [b \in BranchNames |-> NoCommit]
  /\ tracking = [b \in BranchNames |-> NoCommit]
  /\ pending = NoCall
  /\ odb = {}
  /\ InitDatabase

NextWalk ==
  \/ \E limit \in {{}} \cup {{n} : n \in 0..MaxWalk} : get_commits(limit)
  \/ \E limit \in {{}} \cup {{n} : n \in 0..MaxWalk} : get_log_graph(limit)

SpecWalk == InitWalk /\ [][NextWalk]_vars

----------------------------------------------------------------------------
\* The intended merge (spec 4.5 three_way_merge), used to state the claims

\* the paths both sides changed, and changed differently
ConflictPaths(base, ours, theirs) ==
  {p \in Paths : ours[p] # theirs[p] /\ ours[p] # base[p] /\ theirs[p] # base[p]}

\* the merged tree when no path conflicts: the side that changed the path
Merge3(base, ours, theirs) ==
  [p \in Paths |-> IF ours[p] = base[p] THEN theirs[p] ELSE ours[p]]

\* stage 1/2/3 entries of p for the sides that have it, and no stage-0 entry
StagedConflict(ix, p, base, ours, theirs) ==
  /\ \A e \in ix : e.path = p => e.stage > 0
  /\ base[p] # Absent => [path |-> p, stage |-> 1, blob |-> base[p]] \in ix
  /\ ours[p] # Absent => [path |-> p, stage |-> 2, blob |-> ours[p]] \in ix
  /\ theirs[p] # Absent => [path |-> p, stage |-> 3, blob |-> theirs[p]] \in ix

\* the tree a commit's change is relative to: its first parent's
FirstParentTree(cs, c) ==
  IF cs[c].parents = <<>> THEN EmptyTree ELSE cs[cs[c].parents[1]].tree

\* the trees an all-Pick replay of ids on the tree cur is meant to produce, up
\* to (not including) the first step that conflicts
RECURSIVE PickTrees(_, _, _)
PickTrees(cs, cur, ids) ==
  IF ids = <<>> THEN <<>>
  ELSE LET b == FirstParentTree(cs, Head(ids))
           o == cs[Head(ids)].tree
       IN IF ConflictPaths(b, o, cur) # {} THEN <<>>
          ELSE <<Merge3(b, o, cur)>> \o PickTrees(cs, Merge3(b, o, cur), Tail(ids))

AllPick(acts) == \A i \in DOMAIN acts : acts[i] = "Pick"

\* the number of steps up to i that are not Drop: the position, among the new
\* commits, of the commit made for step i
NonDropUpTo(acts, i) == Cardinality({j \in 1..i : acts[j] # "Drop"})

\* the plan ids is the rebase of head onto the commit onto: the commits of
\* merge_base(head, onto)..head, oldest first
ProperPlan(cs, head, onto, ids) ==
  /\ onto # NoCommit
  /\ \E mb \in MergeBases(cs, head, onto) : ids = RebaseRange(cs, head, mb)

Merged(l) == l.op = "merge_branch" /\ l.kind = "merge"

\* the command ran the plan through (l.kind = "done") on such a plan
Executed(l) == l.op = "execute_interactive_rebase" /\ l.ok
Rebased(l) ==
  /\ Executed(l)
  /\ ProperPlan(commits, HeadCommit, branches[plan.onto], plan.commits)

----------------------------------------------------------------------------
\* Claims about merge_branch and rebase_interactive (specification Spec)

\* C1: merge_branch fast-forwards exactly when the merge base of HEAD's commit
\* and the target is HEAD's commit; then no commit is created, HEAD's branch
\* ends at the target, and a working tree that was HEAD's tree is the target's.
C1_FastForward ==
  [][(last'.op = "merge_branch" /\ last'.kind \in {"ff", "merge"}) =>
       LET head == HeadCommit
           target == branches[last'.arg]
       IN /\ (last'.kind = "ff") <=> (head \in MergeBases(commits, head, target))
          /\ last'.kind = "ff" =>
               /\ commits' = commits
               /\ branches'[HEAD'] = target
               /\ workdir = TreeOf(commits, head) => workdir' = TreeOf(commits, target)]_vars

\* C2: when a merge of a diverged branch has a path both sides changed
\* differently, stage 1/2/3 entries are written for the path and no commit is
\* made that carries one side's content for it.
C2_ConflictReported ==
  [][Merged(last') =>
       LET base == TreeOf(commits, last'.mb)
           ours == TreeOf(commits, HeadCommit)
           theirs == TreeOf(commits, last'.target)
       IN \A p \in ConflictPaths(base, ours, theirs) :
            /\ StagedConflict(index', p, base, ours, theirs)
            /\ \A c \in (Len(commits) + 1)..Len(commits') :
                 commits'[c].tree[p] \notin {ours[p], theirs[p]}]_vars

\* C3: the merge commit has, for every path only one side changed, that side's
\* version; when the target is the merge base the merged tree is HEAD's tree.
C3_OneSideTaken ==
  [][Merged(last') =>
       LET base == TreeOf(commits, last'.mb)
           ours == TreeOf(commits, HeadCommit)
           theirs == TreeOf(commits, last'.target)
           merged == TreeOf(commits', branches'[HEAD'])
       IN /\ \A p \in Paths :
               /\ (ours[p] = base[p] /\ theirs[p] # base[p]) => merged[p] = theirs[p]
               /\ (theirs[p] = base[p] /\ ours[p] # base[p]) => merged[p] = ours[p]
          /\ last'.target = last'.mb => merged = ours]_vars

\* C10: after a successful rebase_interactive of a HEAD that has commits the
\* onto branch lacks, as many commits are reachable from HEAD's branch and not
\* from onto as there are in merge_base..HEAD, and what only HEAD's side
\* changed is in the new tip.
C10_RebaseReplays ==
  [][(last'.op = "rebase_interactive" /\ last'.ok
        /\ Ancestors(commits, HeadCommit) \ Ancestors(commits, last'.target) # {}) =>
       LET head == HeadCommit
           onto == last'.target
           mb == last'.mb
           tip == branches'[HEAD']
       IN /\ Cardinality(Ancestors(commits', tip) \ Ancestors(commits', onto))
               = Cardinality(Ancestors(commits, head) \ Ancestors(commits, mb))
          /\ \A p \in Paths :
               (TreeOf(commits, head)[p] # TreeOf(commits, mb)[p]
                  /\ TreeOf(commits, onto)[p] = TreeOf(commits, mb)[p])
               => TreeOf(commits', tip)[p] = TreeOf(commits, head)[p]]_vars

----------------------------------------------------------------------------
\* Claims about execute_interactive_rebase (specification SpecRebase)

\* C4: an all-Pick plan of N steps that do not conflict creates exactly N new
\* commits, each with the one before it (the onto tip for the first) as its only
\* parent, and HEAD's branch ends at the last of them.
C4_PickChain ==
  [][(Executed(last') /\ AllPick(last'.acts)
        /\ Len(PickTrees(commits, TreeOf(commits, last'.target), plan.commits))
             = Len(plan.commits)) =>
       LET n == Len(plan.commits)
           made == last'.made
       IN /\ Len(commits') = Len(commits) + n
          /\ SubSeq(commits', 1, Len(commits)) = commits
          /\ Len(made) = n
          /\ \A i \in 1..n :
               /\ made[i] = Len(commits) + i
               /\ commits'[made[i]].parents
                    = <<IF i = 1 THEN branches[plan.onto] ELSE made[i - 1]>>
          /\ n > 0 => branches'[HEAD'] = made[n]
          /\ HEAD' = HEAD]_vars

\* a plan of two picks, each changing a file, has been replayed onto a commit
\* that is neither HEAD's nor in the plan
C4_Witness ==
  /\ Executed(last) /\ AllPick(last.acts)
  /\ Len(last.acts) = 2 /\ Len(last.made) = 2
  /\ last.target # last.old /\ last.target \notin Range(last.ids)
  /\ ProperPlan(commits, last.old, last.target, last.ids)
  /\ commits[last.ids[1]].tree # TreeOf(commits, last.target)
  /\ commits[last.ids[2]].tree # commits[last.ids[1]].tree
  /\ Len(PickTrees(commits, TreeOf(commits, last.target), last.ids)) = 2
  /\ HeadCommit = last.made[2]
  /\ commits[last.made[2]].parents = <<last.made[1]>>

\* C5: the tree of the commit made for a Pick step is the three-way merge of
\* the step's parent tree, the step's tree and the tree of the commit it is put on.
C5_PickThreeWay ==
  [][Rebased(last') =>
       \A i \in DOMAIN last'.acts :
         last'.acts[i] = "Pick" =>
           LET new == last'.made[NonDropUpTo(last'.acts, i)]
               b == FirstParentTree(commits, plan.commits[i])
               o == commits[plan.commits[i]].tree
               cur == TreeOf(commits', commits'[new].parents[1])
           IN ConflictPaths(b, o, cur) = {} => commits'[new].tree = Merge3(b, o, cur)]_vars

\* C6: when a Pick step conflicts with what the onto branch changed, no commit
\* is made for that step or a later one and no branch is moved.
C6_ConflictStops ==
  [][Rebased(last') =>
       \A i \in DOMAIN last'.acts :
         (/\ \A j \in 1..i : last'.acts[j] = "Pick"
          /\ Len(PickTrees(commits, TreeOf(commits, last'.target),
                           SubSeq(plan.commits, 1, i))) = i - 1)
         => /\ Len(last'.made) = i - 1
            /\ branches' = branches]_vars

\* C7: a Drop step makes no commit, and what only the dropped commit changed is
\* in no commit made for the plan: those paths are as the onto commit has them.
C7_DropAbsent ==
  [][Rebased(last') =>
       /\ Len(last'.made) = NonDrop(last'.acts)
       /\ \A i \in DOMAIN last'.acts :
            last'.acts[i] = "Drop" =>
              \A p \in Paths :
                (/\ commits[plan.commits[i]].tree[p] # FirstParentTree(commits, plan.commits[i])[p]
                 /\ \A j \in DOMAIN last'.acts :
                      (j # i /\ last'.acts[j] # "Drop") =>
                        commits[plan.commits[j]].tree[p]
                          = FirstParentTree(commits, plan.commits[j])[p])
                => \A k \in DOMAIN last'.made :
                     commits'[last'.made[k]].tree[p] = TreeOf(commits, last'.target)[p]]_vars

\* C8: a Squash step after a step that made a commit makes none of its own: a
\* plan with k Squash steps among N non-Drop steps makes N - k commits.
C8_SquashFolds ==
  [][(Rebased(last')
        /\ \A i \in DOMAIN last'.acts :
             last'.acts[i] = "Squash" => NonDropUpTo(last'.acts, i) > 1) =>
       Len(last'.made)
         = NonDrop(last'.acts)
             - Cardinality({i \in DOMAIN last'.acts : last'.acts[i] = "Squash"})]_vars

\* C9: after an Edit step no later step is processed and no branch is moved.
C9_EditPauses ==
  [][Rebased(last') =>
       \A i \in DOMAIN last'.acts :
         (last'.acts[i] = "Edit" /\ \A j \in 1..(i - 1) : last'.acts[j] \in {"Pick", "Drop"})
         => /\ Len(last'.made) <= NonDropUpTo(last'.acts, i)
            /\ branches' = branches]_vars

\* C12: when HEAD's branch has advanced past the tip the plan was computed
\* against (the plan's last commit), execute_interactive_rebase returns an
\* error and leaves every branch as it is (plans onto another branch).
C12_StalePlanRejected ==
  [][(/\ last'.op = "execute_interactive_rebase"
      /\ plan.commits # <<>>
      /\ plan.onto # HEAD
      /\ HeadCommit # plan.commits[Len(plan.commits)]
      /\ plan.commits[Len(plan.commits)] \in Ancestors(commits, HeadCommit)) =>
       (~last'.ok /\ branches' = branches)]_vars

\* C13: when execute_interactive_rebase returns an error, HEAD and every
\* branch are as they were before the command.
C13_FailureKeepsRefs ==
  [][(last'.op = "execute_interactive_rebase" /\ ~last'.ok) =>
       (branches' = branches /\ HEAD' = HEAD)]_vars

\* the second step of a plan failed after the first had made its commit, on a
\* branch whose tip is not the onto commit
C13_Witness ==
  /\ last.op = "execute_interactive_rebase" /\ ~last.ok /\ last.kind = "failed"
  /\ Len(last.ids) = 2 /\ last.ids[2] = NoCommit /\ Len(last.made) = 1
  /\ commits[last.made[1]].parents = <<last.target>>
  /\ last.old # last.target
  /\ HeadCommit = last.old

----------------------------------------------------------------------------
\* Claims about the stash commands (specification SpecStash)

\* C17: create_stash puts the new entry at index 0 and moves every other entry
\* one index up; drop_stash(i) removes the entry at index i and keeps the
\* others in order; get_stashes reports the indices 0..n-1, newest first.
C17_StashStack ==
  [][/\ (last'.op = "create_stash" /\ last'.ok) =>
          /\ Len(stashes') = Len(stashes) + 1
          /\ stashes'[1].id = last'.val
          /\ \A k \in DOMAIN stashes :
               stashes'[k + 1] = stashes[k] /\ stashes[k].id < stashes'[1].id
     /\ (last'.op = "drop_stash" /\ last'.ok) =>
          /\ Len(stashes') = Len(stashes) - 1
          /\ \A k \in 1..last'.val : stashes'[k] = stashes[k]
          /\ \A k \in (last'.val + 2)..Len(stashes) : stashes'[k - 1] = stashes[k]
     /\ LET shown == get_stashes(stashes')
        IN /\ Len(shown) = Len(stashes')
           /\ \A k \in DOMAIN shown : shown[k].index = k - 1
           /\ \A k \in 1..(Len(shown) - 1) : shown[k].id > shown[k + 1].id]_vars

\* the middle one of three stashes has been dropped
C17_Witness ==
  /\ last.op = "drop_stash" /\ last.ok /\ last.val = 1
  /\ Len(stashes) = 2
  /\ stashes[1].id = 3 /\ stashes[2].id = 1

\* C18: apply_stash leaves the stash list as it is, whether it returns Ok or an
\* error; when it returns Ok, a path the stash changed and the current commit
\* has as the stash's base had it holds the stashed content.
C18_ApplyKeepsStash ==
  [][last'.op = "apply_stash" =>
       /\ stashes' = stashes
       /\ last'.ok =>
            LET e == stashes[last'.val + 1]
                B == TreeOf(commits, e.base)
            IN \A p \in Paths :
                 (e.tree[p] # B[p] /\ TreeOf(commits, HeadCommit)[p] = B[p])
                 => workdir'[p] = e.tree[p]]_vars

\* the older of two stashes has been applied: its change is in the working
\* tree, the list still has both
C18_Witness ==
  /\ last.op = "apply_stash" /\ last.ok /\ last.kind = "applied" /\ last.val = 1
  /\ Len(stashes) = 2
  /\ workdir["f"] = stashes[2].tree["f"]
  /\ workdir["f"] # TreeOf(commits, HeadCommit)["f"]
  /\ stashes[1].tree # stashes[2].tree

----------------------------------------------------------------------------
\* Claims about resolve_conflict (specification SpecResolve)

\* a path has one stage-0 entry or up to three conflict entries (one a stage),
\* never both
IndexWellFormed(ix) ==
  \A p \in Paths :
    LET es == {e \in ix : e.path = p}
    IN /\ \A d, e \in es : d.stage = e.stage => d = e
       /\ ~((\E e \in es : e.stage = 0) /\ (\E e \in es : e.stage > 0))

\* C19: after resolve_conflict(path, content) returns Ok the working file
\* holds content, the index has for path the one stage-0 entry with content,
\* the entries of the other paths are as before and no commit is made or
\* reference moved; every index state is well formed.
C19_ResolveStages ==
  [][/\ (last'.op = "resolve_conflict" /\ last'.ok) =>
          LET p == last'.arg
          IN /\ workdir'[p] = last'.val
             /\ {e \in index' : e.path = p} = {[path |-> p, stage |-> 0, blob |-> last'.val]}
             /\ {e \in index' : e.path # p} = {e \in index : e.path # p}
             /\ commits' = commits /\ branches' = branches /\ HEAD' = HEAD
     /\ IndexWellFormed(index')]_vars

\* a path with stage 1-3 entries has been resolved while another path has its
\* entry in the index
C19_Witness ==
  /\ last.op = "resolve_conflict" /\ last.ok /\ last.kind = "conflict"
  /\ \E e \in index : e.path # last.arg
  /\ workdir[last.arg] = last.val
  /\ ~HasConflicts(index)

\* C20: when resolve_conflict returns an error, the working file and the index
\* are as they were before the call.
C20_ResolveAtomic ==
  [][(last'.op = "resolve_conflict" /\ ~last'.ok) =>
       (workdir' = workdir /\ index' = index)]_vars

----------------------------------------------------------------------------
\* Claims about the remote commands (specification SpecRemote)

\* C14: when merge_branch, rebase_interactive or pull_from_remote returns an
\* error, every branch reference is as it was before the command.
C14_ErrorRestoresRef ==
  [][(last'.op \in {"merge_branch", "rebase_interactive", "pull_from_remote"} /\ ~last'.ok) =>
       branches' = branches]_vars

\* C15: a branch reference pull_from_remote moves is fast-forwarded: its old
\* commit is an ancestor of (or is) its new one.
C15_PullFastForwards ==
  [][last'.op = "pull_from_remote" =>
       \A b \in BranchNames :
         branches'[b] # branches[b] => branches[b] \in Ancestors(commits', branches'[b])]_vars

\* C16: when the fetch of pull_from_remote or fetch_from_remote fails, the
\* command returns an error and no branch and not HEAD is changed.
C16_FetchFailure ==
  [][(last'.op \in {"pull_from_remote", "fetch_from_remote"} /\ last'.val) =>
       (~last'.ok /\ branches' = branches /\ HEAD' = HEAD)]_vars

\* the fetch of a pull failed while the tracking reference of HEAD's branch,
\* from an earlier fetch, was ahead of the branch
C16_Witness ==
  /\ last.op = "pull_from_remote" /\ last.val /\ ~last.ok
  /\ last.arg = HEAD
  /\ tracking[HEAD] # NoCommit /\ HeadCommit # NoCommit
  /\ tracking[HEAD] # HeadCommit
  /\ HeadCommit \in Ancestors(commits, tracking[HEAD])

----------------------------------------------------------------------------
\* Claims about concurrent writers (specification SpecConcurrent)

\* C11: a command that writes HEAD's branch after another writer has moved it
\* from the commit the command read fails and leaves every branch as it is
\* (commands on a branch other than the one they name).
C11_CompareAndSwap ==
  [][(/\ pending # NoCall /\ pending' = NoCall
      /\ pending.ref = HEAD /\ pending.arg # HEAD
      /\ HeadCommit # pending.head) =>
       (~last'.ok /\ branches' = branches)]_vars

----------------------------------------------------------------------------
\* Claims about get_merge_conflicts (specification SpecResolve)

\* C21: get_merge_conflicts returns exactly one entry for every path that has
\* a stage 1-3 entry in the index, a conflict with a side absent included, and
\* the empty list exactly when the index has no conflicts.
C21_EveryConflictListed ==
  [][last'.op = "get_merge_conflicts" =>
       LET listed == last'.val
           inConflict == {e.path : e \in {x \in index : x.stage > 0}}
       IN /\ {m.file_path : m \in listed} = inConflict
          /\ \A m, n \in listed : m.file_path = n.file_path => m = n
          /\ (listed = {}) <=> ~HasConflicts(index)]_vars

----------------------------------------------------------------------------
\* Claims about prepare_interactive_rebase (specification SpecRebase)

\* C22: the plan prepare_interactive_rebase(onto_branch, from_commit) returns
\* holds exactly the commits of merge_base(HEAD, onto_branch)..HEAD, each
\* once, every commit after its parents that are in the plan.
C22_PlanRange ==
  [][(/\ plan' # plan /\ plan' # NoPlan
      /\ plan'.onto # HEAD /\ branches[plan'.onto] # NoCommit) =>
       LET ids == plan'.commits
       IN /\ \E mb \in MergeBases(commits, HeadCommit, branches[plan'.onto]) :
               Range(ids) = Ancestors(commits, HeadCommit) \ Ancestors(commits, mb)
          /\ \A i, j \in DOMAIN ids : i # j => ids[i] # ids[j]
          /\ \A i, j \in DOMAIN ids : ids[i] \in Parents(commits, ids[j]) => i < j]_vars

----------------------------------------------------------------------------
\* Claims about get_commits and get_log_graph (specification SpecWalk)

\* the commits of out that may come next after the first k: reachable, not
\* yet given, and with every child among the reachable ones already given
Eligible(cs, head, out, k) ==
  LET given == {out[i] : i \in 1..k}
      reach == Ancestors(cs, head)
  IN {c \in reach \ given : \A d \in reach : c \in Parents(cs, d) => d \in given}

\* every merge commit joins two lines neither of which holds the other (what
\* merge_branch commits: it fast-forwards otherwise)
TrueMerges(cs) ==
  \A i \in DOMAIN cs :
    Len(cs[i].parents) = 2 =>
      /\ cs[i].parents[1] \notin Ancestors(cs, cs[i].parents[2])
      /\ cs[i].parents[2] \notin Ancestors(cs, cs[i].parents[1])

\* C23: the sequence get_commits and get_log_graph return is the first
\* min(limit, reachable) commits of a reverse-topological order of what HEAD
\* reaches, whatever the commits' times: no commit before one of its children,
\* and each commit the newest of those that could come at its place.
C23_ReverseTopological ==
  [][(last'.op \in {"get_commits", "get_log_graph"} /\ last'.ok /\ TrueMerges(commits)) =>
       LET out == last'.val.ids
           max == UnwrapOr(last'.val.limit,
                           IF last'.op = "get_commits" THEN DefaultCommits ELSE DefaultEntries)
           reach == Ancestors(commits, HeadCommit)
       IN /\ Len(out) = IF max < Cardinality(reach) THEN max ELSE Cardinality(reach)
          /\ \A i, j \in DOMAIN out : i < j => out[i] \notin Parents(commits, out[j])
          /\ \A k \in DOMAIN out :
               /\ out[k] \in Eligible(commits, HeadCommit, out, k - 1)
               /\ \A c \in Eligible(commits, HeadCommit, out, k - 1) :
                    commits[c].time <= commits[out[k]].time]_vars

----------------------------------------------------------------------------
\* Claims about the object store (specification SpecObjects)

----------------------------------------------------------------------------
\* Claims about cherry_pick_commit (specification SpecPick)

\* C25: cherry_pick_commit(C) on HEAD's commit H makes one commit with H as
\* its only parent and moves HEAD's branch to it; a path C has as C's parent
\* has it is in the new commit as H has it (C a commit of another line).
C25_PickOwnChange ==
  [][(/\ last'.op = "cherry_pick_commit" /\ last'.ok
      /\ last'.target \notin Ancestors(commits, HeadCommit)) =>
       LET c == last'.target
           h == HeadCommit
           n == Len(commits')
       IN /\ n = Len(commits) + 1
          /\ commits'[n].parents = <<h>>
          /\ branches' = [branches EXCEPT ![HEAD] = n]
          /\ \A p \in Paths :
               commits[c].tree[p] = FirstParentTree(commits, c)[p]
               => commits'[n].tree[p] = commits[h].tree[p]]_vars

----------------------------------------------------------------------------
\* Claims about commit_changes (specification SpecCommit)

\* C26: commit_changes makes one commit, with the tree of the index and HEAD's
\* commit as its only parent (none when HEAD is unborn), and moves the branch
\* HEAD is on to it; HEAD and every other branch stay; with conflict entries
\* in the index it fails and no commit is made or reference moved.
C26_CommitFrame ==
  [][last'.op = "commit_changes" =>
       LET n == Len(commits')
       IN /\ HEAD' = HEAD
          /\ \A c \in DOMAIN commits : commits'[c] = commits[c]
          /\ last'.ok <=> ~(\E e \in index : e.stage \in 1..3)
          /\ last'.ok =>
               /\ n = Len(commits) + 1
               /\ commits'[n].tree = IndexTree(index)
               /\ commits'[n].parents =
                    IF branches[HEAD] = NoCommit THEN <<>> ELSE <<branches[HEAD]>>
               /\ branches'[HEAD] = n
               /\ \A b \in BranchNames \ {HEAD} : branches'[b] = branches[b]
          /\ ~last'.ok => (n = Len(commits) /\ branches' = branches)]_vars

\* a commit has been made on the branch HEAD is on while the other branch
\* stays at the commit that is the new one's parent
C26_Witness ==
  /\ last.op = "commit_changes" /\ last.ok
  /\ branches[HEAD] = Len(commits)
  /\ \E b \in BranchNames \ {HEAD} :
       /\ branches[b] # NoCommit
       /\ commits[branches[HEAD]].parents = <<branches[b]>>
  /\ commits[branches[HEAD]].tree # TreeOf(commits, last.old)

-----------------------------------------------------------------------------
\* The database commands (commands/database.rs), each run from lock() to return

repovars == <<commits, branches, HEAD, workdir, index, plan, stashes, remote, tracking, pending, odb>>

\* init_database: Database::new opens the file and runs initialize, then the
\* application manages the state (manage keeps the state it already has)
init_database(now) ==
  /\ app_settings' = Database_initialize(app_settings, now)
  /\ managed' = TRUE
  /\ last' = Reply("init_database", TRUE, "", "", 0)
  /\ UNCHANGED <<repovars, users, user_seq, organizations, repositories, mutex, tasks>>

\* save_user_info(user); `fails`: the statement returns an sqlx error
save_user_info(user, now, fails) ==
  /\ managed
  /\ user_seq < MaxUserId
  /\ IF fails
     THEN /\ last' = Reply("save_user_info", FALSE, "error", user.email, [user |-> user, now |-> now])
          /\ UNCHANGED <<users, user_seq>>
     ELSE LET r == Database_save_user(users, user_seq, user, now)
          IN /\ users' = r.users
             /\ user_seq' = r.seq
             /\ last' = Reply("save_user_info", TRUE, "saved", user.email,
                              [user |-> user, now |-> now, id |-> r.id])
  /\ UNCHANGED <<repovars, organizations, repositories, app_settings, managed, mutex, tasks>>

get_user_info ==
  /\ managed
  /\ last' = Reply("get_user_info", TRUE, "", "", Database_get_user(users))
  /\ UNCHANGED <<repovars, dbvars>>

save_organization(org) ==
  /\ managed
  /\ LET r == Database_save_organization(organizations, repositories, org)
     IN /\ organizations' = r.organizations
        /\ repositories' = r.repositories
  /\ last' = Reply("save_organization", TRUE, "saved", org.id, org)
  /\ UNCHANGED <<repovars, users, user_seq, app_settings, managed, mutex, tasks>>

get_organizations ==
  /\ managed
  /\ last' = Reply("get_organizations", TRUE, "", "", Database_get_organizations(organizations))
  /\ UNCHANGED <<repovars, dbvars>>

delete_organization(id) ==
  /\ managed
  /\ LET r == Database_delete_organization(organizations, repositories, id)
     IN /\ organizations' = r.organizations
        /\ repositories' = r.repositories
  /\ last' = Reply("delete_organization", TRUE, "deleted", id, 0)
  /\ UNCHANGED <<repovars, users, user_seq, app_settings, managed, mutex, tasks>>

save_repository(repo) ==
  /\ managed
  /\ LET r == Database_save_repository(organizations, repositories, repo)
     IN /\ repositories' = r.repositories
        /\ last' = Reply("save_repository", r.ok, IF r.ok THEN "saved" ELSE "error", repo.id, repo)
  /\ UNCHANGED <<repovars, users, user_seq, organizations, app_settings, managed, mutex, tasks>>

get_repositories ==
  /\ managed
  /\ last' = Reply("get_repositories", TRUE, "", "", Database_get_repositories(repositories))
  /\ UNCHANGED <<repovars, dbvars>>

delete_repository(id) ==
  /\ managed
  /\ repositories' = Database_delete_repository(repositories, id)
  /\ last' = Reply("delete_repository", TRUE, "deleted", id, 0)
  /\ UNCHANGED <<repovars, users, user_seq, organizations, app_settings, managed, mutex, tasks>>

get_app_settings ==
  /\ managed
  /\ LET row == Database_get_settings(app_settings)
     IN last' = Reply("get_app_settings", row # {}, IF row # {} THEN "" ELSE "error", "", row)
  /\ UNCHANGED <<repovars, dbvars>>

update_app_settings(settings, now) ==
  /\ managed
  /\ app_settings' = Database_update_settings(app_settings, settings, now)
  /\ last' = Reply("update_app_settings", TRUE, "updated", "", settings)
  /\ UNCHANGED <<repovars, users, user_seq, organizations, repositories, managed, mutex, tasks>>

complete_onboarding_db(now) ==
  /\ managed
  /\ app_settings' = Database_complete_onboarding(app_settings, now)
  /\ last' = Reply("complete_onboarding_db", TRUE, "updated", "", 0)
  /\ UNCHANGED <<repovars, users, user_seq, organizations, repositories, managed, mutex, tasks>>

\* the "tables" object of get_database_info: four COUNT(*) queries
DatabaseInfo(us, orgs, repos, st) ==
  [users |-> Cardinality(us), organizations |-> Cardinality(orgs),
   repositories |-> Cardinality(repos), settings_configured |-> Cardinality(st) > 0]

get_database_info ==
  /\ managed
  /\ last' = Reply("get_database_info", TRUE, "", "",
                   DatabaseInfo(users, organizations, repositories, app_settings))
  /\ UNCHANGED <<repovars, dbvars>>

\* the "migration_status" object of verify_data_migration
MigrationStatus(user_data, orgs, settings) ==
  [has_user_data |-> user_data # {}, has_organizations |-> orgs # {},
   onboarding_completed |-> ~The(settings).is_first_time,
   migration_complete |-> user_data # {} /\ ~The(settings).is_first_time]

verify_data_migration ==
  /\ managed
  /\ LET settings == Database_get_settings(app_settings)
     IN last' = IF settings = {}
                THEN Reply("verify_data_migration", FALSE, "error", "", 0)
                ELSE Reply("verify_data_migration", TRUE, "", "",
                           MigrationStatus(Database_get_user(users),
                                           Database_get_organizations(organizations), settings))
  /\ UNCHANGED <<repovars, dbvars>>

\* state.user, state.workspaces.*.organizations and state.is_first_time of the
\* localStorage value: a key may be missing ({}), a string may be empty
MigrationUsers == [name : {"", "ann"}, email : {"", "a@x"}, workspace_name : {{}}]
MigrationOrgs == [id : {"", "o1"}, name : {"", "bob"}]
LocalStorage == [user : {{}} \cup {{u} : u \in MigrationUsers},
                 organizations : {<<>>} \cup {<<o>> : o \in MigrationOrgs},
                 is_first_time : {{}, {TRUE}, {FALSE}}]

\* the tables after the statements of migrate_from_localstorage, in order:
\* save_user when name and email are not empty, save_organization for every
\* organization with an id and a name, complete_onboarding when is_first_time
\* is false (a missing key counts as true)
MigrateUser(us, seq, data, now) ==
  IF \E u \in data.user : u.name # "" /\ u.email # ""
  THEN Database_save_user(us, seq, The(data.user), now)
  ELSE [users |-> us, seq |-> seq, id |-> 0]

RECURSIVE MigrateOrgs(_, _, _, _)
MigrateOrgs(orgs, repos, list, now) ==
  IF list = <<>>
  THEN [organizations |-> orgs, repositories |-> repos]
  ELSE LET o == Head(list)
           r == IF o.id # "" /\ o.name # ""
                THEN Database_save_organization(orgs, repos,
                       [id |-> o.id, name |-> o.name, created_at |-> now, updated_at |-> now])
                ELSE [organizations |-> orgs, repositories |-> repos]
       IN MigrateOrgs(r.organizations, r.repositories, Tail(list), now)

MigrateOnboarding(st, data, now) ==
  IF ~UnwrapOr(data.is_first_time, TRUE) THEN Database_complete_onboarding(st, now) ELSE st

migrate_from_localstorage(data, now) ==
  /\ managed
  /\ user_seq < MaxUserId
  /\ LET u == MigrateUser(users, user_seq, data, now)
         o == MigrateOrgs(organizations, repositories, data.organizations, now)
     IN /\ users' = u.users
        /\ user_seq' = u.seq
        /\ organizations' = o.organizations
        /\ repositories' = o.repositories
  /\ app_settings' = MigrateOnboarding(app_settings, data, now)
  /\ last' = Reply("migrate_from_localstorage", TRUE, "", "", data)
  /\ UNCHANGED <<repovars, managed, mutex, tasks>>

\* the user table and its commands
NextUsers ==
  \/ \E now \in Times : init_database(now)
  \/ \E user \in UserInfos, now \in Times, fails \in BOOLEAN : save_user_info(user, now, fails)
  \/ get_user_info
  \/ \E data \in LocalStorage, now \in Times :
       data.organizations = <<>> /\ data.is_first_time = {} /\ migrate_from_localstorage(data, now)

SpecUsers == Init /\ [][NextUsers]_vars

\* the settings row and its commands
NextSettings ==
  \/ \E now \in Times : init_database(now)
  \/ get_app_settings
  \/ \E settings \in AppSettingss, now \in Times : update_app_settings(settings, now)
  \/ \E now \in Times : complete_onboarding_db(now)
  \/ \E data \in LocalStorage, now \in Times : migrate_from_localstorage(data, now)
  \/ verify_data_migration
  \/ get_database_info

SpecSettings == Init /\ [][NextSettings]_vars

\* organizations, repositories and their commands; the organizations have one
\* name and the repositories one time of saving
NextOrganizations ==
  \/ \E now \in Times : init_database(now)
  \/ \E org \in Organizations : org.name = "ann" /\ org.created_at = 1 /\ save_organization(org)
  \/ get_organizations
  \/ \E id \in OrgIds : delete_organization(id)
  \/ \E repo \in Repositories : repo.updated_at = 1 /\ save_repository(repo)
  \/ get_repositories
  \/ \E id \in RepoIds : delete_repository(id)

SpecOrganizations == Init /\ [][NextOrganizations]_vars

-----------------------------------------------------------------------------
\* The database commands as tasks of the async runtime: a command waits in
\* db_state.lock().await, runs its statements one await at a time and gives
\* the mutex back when it returns

\* the statements a command awaits between lock() and its return
Statements(cmd) ==
  CASE cmd = "init_database" -> 5
    [] cmd = "migrate_from_localstorage" -> 3
    [] cmd = "get_database_info" -> 4
    [] cmd = "verify_data_migration" -> 3
    [] OTHER -> 1

\* the tables as one value
Tables == [users |-> users, seq |-> user_seq, organizations |-> organizations,
           repositories |-> repositories, app_settings |-> app_settings]

\* the tables after statement k of a command
Run(cmd, k, arg, now, db) ==
  CASE cmd = "init_database" ->
         IF k = 5 THEN [db EXCEPT !.app_settings = Database_initialize(@, now)] ELSE db
    [] cmd = "save_user_info" ->
         LET r == Database_save_user(db.users, db.seq, arg, now)
         IN [db EXCEPT !.users = r.users, !.seq = r.seq]
    [] cmd = "complete_onboarding_db" ->
         [db EXCEPT !.app_settings = Database_complete_onboarding(@, now)]
    [] cmd = "migrate_from_localstorage" ->
         IF k = 1
         THEN LET r == MigrateUser(db.users, db.seq, arg, now)
              IN [db EXCEPT !.users = r.users, !.seq = r.seq]
         ELSE IF k = 2
         THEN LET r == MigrateOrgs(db.organizations, db.repositories, arg.organizations, now)
              IN [db EXCEPT !.organizations = r.organizations, !.repositories = r.repositories]
         ELSE [db EXCEPT !.app_settings = MigrateOnboarding(@, arg, now)]
    [] OTHER -> db

\* what statement k of a command reads
Observe(cmd, k, db) ==
  CASE cmd = "get_database_info" ->
         IF k = 1 THEN <<Cardinality(db.users)>>
         ELSE IF k = 2 THEN <<Cardinality(db.organizations)>>
         ELSE IF k = 3 THEN <<Cardinality(db.repositories)>>
         ELSE <<Cardinality(db.app_settings) > 0>>
    [] cmd = "verify_data_migration" ->
         IF k = 1 THEN <<Database_get_user(db.users) # {}>>
         ELSE IF k = 2 THEN <<db.organizations # {}>>
         ELSE <<\E r \in Database_get_settings(db.app_settings) : ~r.is_first_time>>
    [] cmd = "get_user_info" -> <<Database_get_user(db.users)>>
    [] OTHER -> <<>>

IdleTask == [cmd |-> "", pc |-> "idle", step |-> 0, arg |-> <<>>, seen |-> <<>>]

\* the commands with State<DatabaseState> that run as tasks, and the arguments
\* they get: one user, a localStorage value with a user and an organization
LockCommands == {"save_user_info", "migrate_from_localstorage", "get_database_info",
                 "verify_data_migration"}

Arguments(cmd) ==
  CASE cmd = "save_user_info" ->
         {u \in UserInfos : u.name = "bob" /\ u.email = "a@x" /\ u.workspace_name = {}
                              /\ u.created_at = 1}
    [] cmd = "migrate_from_localstorage" ->
         {d \in LocalStorage : /\ \E u \in d.user : u.name # "" /\ u.email # ""
                               /\ \E i \in DOMAIN d.organizations :
                                    d.organizations[i].id # "" /\ d.organizations[i].name # ""
                               /\ d.is_first_time = {FALSE}}
    [] OTHER -> {<<>>}

\* rows of users the commands in flight may still insert
Saving == Cardinality({t \in TaskIds : tasks[t].cmd \in {"save_user_info", "migrate_from_localstorage"}})

\* init_database is called: it takes no State and no lock
CallInit(t) ==
  /\ tasks[t].pc = "idle"
  /\ tasks' = [tasks EXCEPT ![t] = [IdleTask EXCEPT !.cmd = "init_database", !.pc = "body"]]
  /\ UNCHANGED <<repovars, last, users, user_seq, organizations, repositories, app_settings,
                 managed, mutex>>

\* a lock() that does not look at the holder
AvailableAlways(mx) == TRUE

\* lock() gets the mutex at once when no task holds it
Available(mx) == mx.holder = NoTask

\* a command with State<DatabaseState> is called and reaches lock().await:
\* it takes the mutex when it is free, else it queues behind the waiters
Lock(t, cmd, arg) ==
  /\ tasks[t].pc = "idle"
  /\ managed
  /\ user_seq + Saving < MaxUserId
  /\ IF Available(mutex)
     THEN /\ mutex' = [mutex EXCEPT !.holder = t]
          /\ tasks' = [tasks EXCEPT ![t] = [IdleTask EXCEPT !.cmd = cmd, !.pc = "body", !.arg = arg]]
     ELSE /\ mutex' = [mutex EXCEPT !.waiters = Append(@, t)]
          /\ tasks' = [tasks EXCEPT ![t] = [IdleTask EXCEPT !.cmd = cmd, !.pc = "wait", !.arg = arg]]
  /\ UNCHANGED <<repovars, last, users, user_seq, organizations, repositories, app_settings, managed>>

\* the task runs its next statement on the pool
Statement(t, now) ==
  /\ tasks[t].pc = "body"
  /\ tasks[t].step < Statements(tasks[t].cmd)
  /\ LET k == tasks[t].step + 1
         db == Run(tasks[t].cmd, k, tasks[t].arg, now, Tables)
     IN /\ users' = db.users
        /\ user_seq' = db.seq
        /\ organizations' = db.organizations
        /\ repositories' = db.repositories
        /\ app_settings' = db.app_settings
        /\ tasks' = [tasks EXCEPT ![t].step = k,
                                  ![t].seen = @ \o Observe(tasks[t].cmd, k, Tables)]
  /\ UNCHANGED <<repovars, last, managed, mutex>>

\* the command returns: init_database hands its Database to manage; the
\* others drop the guard, and the mutex goes to the first waiter
Return(t) ==
  /\ tasks[t].pc = "body"
  /\ tasks[t].step = Statements(tasks[t].cmd)
  /\ last' = Reply(tasks[t].cmd, TRUE, "task", "", tasks[t].seen)
  /\ IF tasks[t].cmd = "init_database"
     THEN /\ managed' = TRUE
          /\ tasks' = [tasks EXCEPT ![t] = IdleTask]
          /\ UNCHANGED mutex
     ELSE /\ IF mutex.waiters = <<>>
             THEN /\ mutex' = [mutex EXCEPT !.holder = NoTask]
                  /\ tasks' = [tasks EXCEPT ![t] = IdleTask]
             ELSE /\ mutex' = [holder |-> Head(mutex.waiters), waiters |-> Tail(mutex.waiters)]
                  /\ tasks' = [tasks EXCEPT ![t] = IdleTask, ![Head(mutex.waiters)].pc = "body"]
          /\ UNCHANGED managed
  /\ UNCHANGED <<repovars, users, user_seq, organizations, repositories, app_settings>>

NextLock ==
  \/ \E t \in TaskIds : CallInit(t)
  \/ \E t \in TaskIds, cmd \in LockCommands : \E arg \in Arguments(cmd) : Lock(t, cmd, arg)
  \/ \E t \in TaskIds, now \in Times : Statement(t, now)
  \/ \E t \in TaskIds : Return(t)

SpecLock == Init /\ [][NextLock]_vars

\* the runtime polls every task that can go on: a statement that can run
\* runs, a command that has run its statements returns
SpecLockFair ==
  /\ SpecLock
  /\ \A t \in TaskIds : WF_vars(\E now \in Times : Statement(t, now)) /\ WF_vars(Return(t))

-----------------------------------------------------------------------------
\* Claims about the store

\* C28: once the database is initialised app_settings holds exactly one row,
\* with id 1; init_database run again leaves the row as it is; is_first_time
\* goes from FALSE to TRUE only in an update_app_settings that passes TRUE.
C28_OneSettingsRow ==
  [][/\ managed' => Cardinality(app_settings') = 1 /\ \A r \in app_settings' : r.id = 1
     /\ (last'.op = "init_database" /\ app_settings # {}) => app_settings' = app_settings
     /\ \A r \in app_settings, q \in app_settings' :
          (~r.is_first_time /\ q.is_first_time)
            => (last'.op = "update_app_settings" /\ last'.val.is_first_time)]_vars

\* C28 witness: init_database has run on a store whose row was changed
C28_Witness ==
  /\ last.op = "init_database"
  /\ \E r \in app_settings : ~r.is_first_time /\ r.theme_mode = "light"

\* the user a row of users stands for
UserOf(r) == [name |-> r.name, email |-> r.email, workspace_name |-> r.workspace_name]

\* C29: users has at most one row for an email; a successful save_user_info
\* leaves the row of its email with the name and workspace_name it passed and
\* with the created_at the email had before (the time of the save when it had
\* none), and that row is what get_user gives until the next save; a command
\* that saves no user leaves the table as it is.
C29_UpsertByEmail ==
  [][/\ \A r, q \in users' : r.email = q.email => r = q
     /\ (last'.op = "save_user_info" /\ last'.ok)
          => LET u == last'.val.user
                 old == {r \in users : r.email = u.email}
             IN /\ \E r \in users' :
                     /\ UserOf(r) = [name |-> u.name, email |-> u.email,
                                     workspace_name |-> u.workspace_name]
                     /\ r.created_at = IF old = {} THEN last'.val.now ELSE The(old).created_at
                     /\ Database_get_user(users') = {r}
                /\ \A r \in users : r.email # u.email => r \in users'
     /\ last'.op = "get_user_info" => last'.val = Database_get_user(users)
     /\ (last'.op \notin {"save_user_info", "migrate_from_localstorage"} \/ ~last'.ok)
          => users' = users]_vars

\* C29 witness: an email saved again, at another time, beside another user
C29_Witness ==
  /\ last.op = "save_user_info" /\ last.ok
  /\ Cardinality(users) = 2
  /\ \E r \in users : r.email = last.arg /\ r.created_at # last.val.now

\* C30: save_organization of an organization that exists leaves every
\* repository with the organization_id it had.
C30_ResaveKeepsReferences ==
  [][last'.op = "save_organization"
       => \A r \in repositories : \E q \in repositories' :
            q.id = r.id /\ q.organization_id = r.organization_id]_vars

\* a task that is in the body of a command that takes the mutex
Locked(t) == tasks[t].pc = "body" /\ tasks[t].cmd \in LockCommands

\* C27 as amended: a command that takes State<DatabaseState> runs its
\* statements only while it holds the mutex, so no two of them are in their
\* bodies at once; what get_database_info and verify_data_migration have read
\* is still true of the tables when they return; a command that waits for the
\* mutex gets it.
C27_LockedBodiesSerial ==
  /\ [](\A t, u \in TaskIds : /\ (Locked(t) => mutex.holder = t)
                               /\ ((Locked(t) /\ Locked(u)) => t = u))
  /\ [][/\ \A t \in TaskIds :
            (tasks'[t].step = tasks[t].step + 1 /\ tasks[t].cmd \in LockCommands)
              => mutex.holder = t
        /\ (last' # last /\ last'.op = "get_database_info")
             => last'.val = <<Cardinality(users), Cardinality(organizations),
                              Cardinality(repositories), app_settings # {}>>
        /\ (last' # last /\ last'.op = "verify_data_migration")
             => last'.val = <<users # {}, organizations # {},
                              \E r \in app_settings : ~r.is_first_time>>]_vars
  /\ \A t \in TaskIds : (tasks[t].pc = "wait") ~> (tasks[t].pc = "body")

\* C27 witness: a command waits while migrate_from_localstorage holds the
\* mutex with its user saved and its organizations not yet
C27_Witness ==
  \E t, u \in TaskIds :
    /\ tasks[t].pc = "wait"
    /\ mutex.holder = u
    /\ tasks[u].cmd = "migrate_from_localstorage"
    /\ tasks[u].step = 1

\* C27: while the command that holds the mutex is between two statements of
\* its body, no other database command runs a statement on the store.
C27_BodiesNeverInterleave ==
  [][\A t, u \in TaskIds :
       (/\ t # u
        /\ mutex.holder = u
        /\ tasks[u].step > 0
        /\ tasks[u].step < Statements(tasks[u].cmd))
         => tasks'[t].step # tasks[t].step + 1]_vars

====
